---- MODULE Spec2Model ----
(***************************************************************************)
(* Watch Dog background service worker (src/background.js).                *)
(*                                                                         *)
(* The worker is a single JavaScript thread.  Every handler is an async    *)
(* function; it runs synchronously from one await to the next, and other   *)
(* handlers can run while it is suspended.  A handler is modelled as a     *)
(* task whose pc names the await it is suspended on.  Each synchronous     *)
(* segment of a handler is an operator from the worker's state to its next *)
(* state; Spec runs a handler's segments back to back (handlers one at a   *)
(* time), SpecAsync runs one segment per step (handlers interleave at      *)
(* their awaits).  chrome.storage.local serves requests in the order they  *)
(* were issued, so a get returns the store as it is when the segment that  *)
(* issues it ends, and a set takes effect at the end of the segment that   *)
(* issues it.                                                              *)
(*                                                                         *)
(* Times are milliseconds (Date.now()); intervals are seconds.             *)
(*                                                                         *)
(* SpecHistory starts from a filled history, SpecDismiss interleaves       *)
(* dismissals, SpecBoot starts with onStartup in flight, SpecCreate adds   *)
(* the restoreConfig handler of the worker build in src/unnamed/part_002,  *)
(* and SpecMatch applies content.js checkAllMonitors to small pages.       *)
(* SpecRace, SpecTimer, SpecStop, SpecStopAll and SpecFlag interleave one  *)
(* kind of request each (found, stopMonitoring, stopAllMonitoring, tab     *)
(* removals) with the schedule, the timers or the InPrivate session reset. *)
(***************************************************************************)
EXTENDS Integers, FiniteSets, Sequences, TLC

\* ---------------------------------------------------------------- bounds
MaxMonitors == 2
UserTabs == 2
MaxTabs == 5
MaxTicks == 6
MaxTasks == 2
MaxRemovals == 2
MaxEntries == 3
MaxPageLen == 2

\* ------------------------------------------------------ program constants
STUCK_THRESHOLD_MS == 30000
WATCHDOG_CHECK_INTERVAL_MS == 10000
DefaultInterval == 15
StartBufferMs == 2000
WatchdogBufferMs == 5000
ResetBufferMs == 3000
NavErrorCooldownMs == 10000
NavErrorExpiryMs == 60000
HistoryCap == 50
ResetDelayMs == 1500

\* JavaScript null (foundAt, nextRefreshTime); never a valid Date.now().
Null == 0 - 1

\* Refresh intervals a watch is started with (message.refreshInterval), in
\* seconds: one below and one above the 15 s the watchdog's loop starts from.
Intervals == {10, 20}

\* The clock is observed every watchdog period.
ClockStep == WATCHDOG_CHECK_INTERVAL_MS

TabIds == 1 .. MaxTabs
MonitorIds == 1 .. MaxMonitors
Slots == 1 .. MaxTasks

VARIABLES
    monitors,            \* chrome.storage.local 'monitors': id -> monitor
    history,             \* chrome.storage.local 'history': newest first
    refreshTimers,       \* tab -> "none" | "armed" | "fired" (the Map's entry)
    timers,              \* setTimeout callbacks not yet run or cancelled
    tabsBeingReset,      \* Set of tabs closed on purpose by a session reset
    stuckWatchdogTimer,  \* TRUE while the setInterval is running
    recentNavErrors,     \* tab -> time of last handled navigation error
    tabs,                \* the browser's open tabs
    nextTab,             \* id the browser gives the next created tab
    nextId,              \* generateId(): ids are never reused
    removed,             \* tabs.onRemoved events not yet delivered
    alarm,               \* TRUE while the offscreen alarm sound plays
    now,                 \* Date.now()
    tasks,               \* slot -> handler in flight
    reloaded,            \* tabs the last step called chrome.tabs.reload on
    navigated,           \* tabs the last step sent back to their URL
    refused,             \* closed tabs the last step failed to reopen
    storageQueue,        \* slots waiting for chrome.storage.local, oldest first
    content              \* content script: a watch's terms, the page, isMatch

vars == <<monitors, history, refreshTimers, timers, tabsBeingReset,
          stuckWatchdogTimer, recentNavErrors, tabs, nextTab, nextId, removed,
          alarm, now, tasks, reloaded, navigated, refused, storageQueue,
          content>>


\* ---------------------------------------------------------------- helpers
\* the content script before it has looked at a page
NoPage == [searchTerms |-> <<>>, pageText |-> <<>>, isMatch |-> FALSE,
           checked |-> FALSE,
           url |-> [origin |-> "", pathname |-> <<>>, search |-> ""],
           location |-> [origin |-> "", pathname |-> <<>>, search |-> ""],
           searchText |-> <<>>, sent |-> {}]

NoMonitors == [i \in {} |-> 0]

Min(S) == CHOOSE x \in S : \A y \in S : x <= y

Remove(m, S) == [i \in (DOMAIN m) \ S |-> m[i]]

Put(m, id, rec) == [i \in (DOMAIN m) \cup {id} |-> IF i = id THEN rec ELSE m[i]]

\* Incognito windows are only ever created by the extension; the tabs the
\* user opened are normal ones.
IsIncognitoTab(tab) == tab > UserTabs

\* getMonitorsForTab
MonitorsForTab(mons, tab) == {id \in DOMAIN mons : mons[id].tabId = tab}

\* getActiveMonitorsForTab applied to a store snapshot
ActiveForTab(mons, tab) == {id \in MonitorsForTab(mons, tab) : ~mons[id].found}

\* a schedule that would take the longest interval instead
LongestInterval(mons, S) ==
    CHOOSE x \in {mons[id].interval : id \in S} :
        \A id \in S : mons[id].interval <= x

\* the "find shortest interval" loop of scheduleRefreshForTab (S non-empty)
ShortestInterval(mons, S) == Min({mons[id].interval : id \in S})

\* the same loop in checkForStuckMonitors, which starts from 15 not Infinity
WatchdogShortestInterval(mons, S) ==
    Min({DefaultInterval} \cup {mons[id].interval : id \in S})

\* clearTabTimer: clearTimeout on the handle in the Map, then delete the entry
ClearTimers(tm, tab) == {t \in tm : ~(t.tab = tab /\ t.tracked)}

ClearEntry(rt, tab) == [rt EXCEPT ![tab] = "none"]

\* setTimeout + refreshTimers.set: the Map now holds the new handle; a
\* timer whose handle was in the Map and not cancelled keeps running
ArmTimer(tm, tab, due) ==
    {IF t.tab = tab THEN [t EXCEPT !.tracked = FALSE] ELSE t : t \in tm}
        \cup {[tab |-> tab, due |-> due, tracked |-> TRUE]}

\* ------------------------------------------------------------------ state
\* the worker's state as one record (a step starts with no reload issued),
\* and the step that installs a record
St == [monitors |-> monitors, history |-> history,
       refreshTimers |-> refreshTimers, timers |-> timers,
       tabsBeingReset |-> tabsBeingReset,
       stuckWatchdogTimer |-> stuckWatchdogTimer,
       recentNavErrors |-> recentNavErrors, tabs |-> tabs,
       nextTab |-> nextTab, nextId |-> nextId, removed |-> removed,
       alarm |-> alarm, now |-> now, tasks |-> tasks, reloaded |-> {},
       navigated |-> {}, refused |-> {}, storageQueue |-> storageQueue]

Apply(s) ==
    /\ monitors' = s.monitors
    /\ history' = s.history
    /\ refreshTimers' = s.refreshTimers
    /\ timers' = s.timers
    /\ tabsBeingReset' = s.tabsBeingReset
    /\ stuckWatchdogTimer' = s.stuckWatchdogTimer
    /\ recentNavErrors' = s.recentNavErrors
    /\ tabs' = s.tabs
    /\ nextTab' = s.nextTab
    /\ nextId' = s.nextId
    /\ removed' = s.removed
    /\ alarm' = s.alarm
    /\ now' = s.now
    /\ tasks' = s.tasks
    /\ reloaded' = s.reloaded
    /\ navigated' = s.navigated
    /\ refused' = s.refused
    /\ storageQueue' = s.storageQueue
    /\ content' = content

\* ------------------------------------------------------------------ tasks
IdleTask == [op |-> "none", pc |-> "idle", tab |-> 0, mid |-> 0,
             snap |-> NoMonitors, ids |-> {}, nrt |-> Null, ms |-> 0,
             ret |-> "done", todo |-> {}, groups |-> {}, at |-> Null,
             hsnap |-> <<>>, snap2 |-> NoMonitors, queue |-> <<>>,
             ssnap |-> NoMonitors, target |-> 0,
             status |-> "none"]

Free(i) == tasks[i].pc = "idle"

\* a handler starts in the lowest free slot
CanBegin(i) ==
    /\ Free(i)
    /\ \A j \in Slots : j < i => ~Free(j)

NewTask(op, pc, tab, mid) ==
    [IdleTask EXCEPT !.op = op, !.pc = pc, !.tab = tab, !.mid = mid]

\* what stays of a handler that returned: what it was, and its response
Finish(t, status) ==
    [IdleTask EXCEPT !.op = t.op, !.pc = "done", !.tab = t.tab,
                     !.mid = t.mid, !.target = t.target, !.at = t.at,
                     !.todo = t.todo, !.groups = t.groups,
                     !.status = status]

SetTask(s, i, t) == [s EXCEPT !.tasks[i] = t]

\* a clearTabTimer that would delete the Map entry without clearTimeout
ForgetTabTimer(s, tab) ==
    [s EXCEPT !.refreshTimers = ClearEntry(s.refreshTimers, tab)]

\* clearTabTimer in state s
ClearTabTimer(s, tab) ==
    [s EXCEPT !.timers = ClearTimers(s.timers, tab),
              !.refreshTimers = ClearEntry(s.refreshTimers, tab)]

\* the task continues at the label that follows `await scheduleRefreshForTab`
Return(t) ==
    IF t.ret = "done" THEN Finish(t, t.status)
    ELSE [t EXCEPT !.pc = t.ret, !.ret = "done", !.ids = {}, !.nrt = Null,
                   !.ms = 0, !.ssnap = NoMonitors]

\* `await scheduleRefreshForTab(tab)`: the call runs up to its first await,
\* the storage get of getActiveMonitorsForTab
CallSchedule(s, t, tab, ret) ==
    [t EXCEPT !.pc = "sched_active", !.tab = tab, !.ret = ret,
              !.ssnap = s.monitors]

Init ==
    /\ monitors = NoMonitors
    /\ history = <<>>
    /\ refreshTimers = [t \in TabIds |-> "none"]
    /\ timers = {}
    /\ tabsBeingReset = {}
    /\ stuckWatchdogTimer = FALSE
    /\ recentNavErrors = [t \in TabIds |-> Null]
    /\ tabs = 1 .. UserTabs
    /\ nextTab = UserTabs + 1
    /\ nextId = 1
    /\ removed = {}
    /\ alarm = FALSE
    /\ now = ClockStep
    /\ tasks = [i \in Slots |-> IdleTask]
    /\ reloaded = {}
    /\ navigated = {}
    /\ refused = {}
    /\ storageQueue = <<>>
    /\ content = NoPage

\* ------------------------------------------------- scheduleRefreshForTab
\* lines 300-323: the active monitors arrived.  None: clear the timer and
\* return.  Otherwise pick the shortest interval, clear the timer, compute
\* nextRefreshTime and ask for the whole store.
SchedActive(s, i) ==
    LET t == s.tasks[i]
        active == ActiveForTab(t.ssnap, t.tab)
        c == ClearTabTimer(s, t.tab)
    IN IF active = {}
       THEN SetTask(c, i, Return(t))
       ELSE SetTask(c, i, [t EXCEPT
               !.pc = "sched_all",
               !.ids = active,
               !.ms = ShortestInterval(t.ssnap, active) * 1000,
               !.nrt = s.now + ShortestInterval(t.ssnap, active) * 1000,
               !.ssnap = s.monitors])

\* lines 323-329: stamp nextRefreshTime on the monitors that were active and
\* are still in the store, and save the whole store.
StampNext(mons, ids, nrt) ==
    [id \in DOMAIN mons |->
        IF id \in ids THEN [mons[id] EXCEPT !.nextRefreshTime = nrt]
        ELSE mons[id]]

SchedAll(s, i) ==
    LET t == s.tasks[i]
    IN SetTask([s EXCEPT !.monitors = StampNext(t.ssnap, t.ids, t.nrt)],
               i, [t EXCEPT !.pc = "sched_saved", !.ssnap = NoMonitors])

\* lines 331-360: the save completed: arm the one-shot timer, record its
\* handle, make sure the watchdog runs (startStuckWatchdog), return.
SchedSaved(s, i) ==
    LET t == s.tasks[i]
    IN SetTask([s EXCEPT
                   !.timers = ArmTimer(s.timers, t.tab, s.now + t.ms),
                   !.refreshTimers[t.tab] = "armed",
                   !.stuckWatchdogTimer = TRUE],
               i, Return(t))

\* ------------------------------------------------- refresh timer callback
\* lines 333-334: a one-shot timer runs and reads the store.  Its handle
\* stays in the Map.
BeginTimer(s, i, tm) ==
    SetTask([s EXCEPT
                !.timers = s.timers \ {tm},
                !.refreshTimers[tm.tab] =
                    IF tm.tracked THEN "fired" ELSE s.refreshTimers[tm.tab]],
            i, [NewTask("timer", "timer_active", tm.tab, 0)
                    EXCEPT !.snap = s.monitors])

\* a timer callback that would not look at the active monitors
TimerUnchecked(s, i) ==
    SetTask(s, i, [s.tasks[i] EXCEPT !.pc = "timer_tab", !.snap = NoMonitors])

\* lines 335-341: no active monitor left: nothing to do; else look the tab up
TimerActive(s, i) ==
    LET t == s.tasks[i]
    IN IF ActiveForTab(t.snap, t.tab) = {}
       THEN SetTask(s, i, Finish(t, "noop"))
       ELSE SetTask(s, i, [t EXCEPT !.pc = "timer_tab", !.snap = NoMonitors])

\* lines 341-346: the tab exists: reload it; it is gone: read the store
TimerTab(s, i) ==
    LET t == s.tasks[i]
    IN IF t.tab \in s.tabs
       THEN SetTask([s EXCEPT !.reloaded = s.reloaded \cup {t.tab}],
                    i, Finish(t, "reloaded"))
       ELSE SetTask(s, i, [t EXCEPT !.pc = "timer_gone", !.snap = s.monitors])

\* a cleanup that would delete only the active monitors of the tab
TimerGoneActiveOnly(s, i) ==
    LET t == s.tasks[i]
    IN SetTask([s EXCEPT
                   !.monitors = Remove(t.snap, ActiveForTab(t.snap, t.tab))],
               i, [t EXCEPT !.pc = "timer_cleaned", !.snap = NoMonitors])

\* lines 346-352: delete every monitor of the vanished tab and save
TimerGone(s, i) ==
    LET t == s.tasks[i]
    IN SetTask([s EXCEPT
                   !.monitors = Remove(t.snap, MonitorsForTab(t.snap, t.tab))],
               i, [t EXCEPT !.pc = "timer_cleaned", !.snap = NoMonitors])

\* line 353
TimerCleaned(s, i) ==
    LET t == s.tasks[i]
    IN SetTask(ClearTabTimer(s, t.tab), i, Finish(t, "removed"))

\* ------------------------------------------------------- startMonitoring
\* the monitor record of lines 459-472
NewMonitor(tab, interval, t0) ==
    [tabId |-> tab, interval |-> interval, found |-> FALSE, foundAt |-> Null,
     isIncognito |-> FALSE, incognitoCycleCount |-> 0,
     nextRefreshTime |-> t0 + interval * 1000 + StartBufferMs]

\* line 456: the popup sent startMonitoring for its current tab (shared.js
\* 1105-1112)
BeginStartMonitoring(s, i, tab, interval) ==
    SetTask(s, i, [NewTask("startMonitoring", "start_got", tab, 0)
                       EXCEPT !.ms = interval, !.snap = s.monitors])

\* lines 457-474
StartGot(s, i) ==
    LET t == s.tasks[i]
    IN SetTask([s EXCEPT
                   !.monitors = Put(t.snap, s.nextId,
                                    NewMonitor(t.tab, t.ms, s.now)),
                   !.nextId = s.nextId + 1],
               i, [t EXCEPT !.pc = "start_saved", !.mid = s.nextId,
                            !.snap = NoMonitors, !.ms = 0])

\* lines 475-476
StartSaved(s, i) == SetTask(s, i, Finish(s.tasks[i], "started"))

\* ------------------------------------------- content script: page checks
\* content.js checkAllMonitors runs in every page load of a tab (a reload by
\* the worker, by the popup or by the user) and reports with one of the
\* messages below, or not at all.

\* lines 771-777
BeginScheduleRefresh(s, i, tab) ==
    SetTask(s, i, [CallSchedule(s, NewTask("scheduleRefresh", "idle", tab, 0),
                                tab, "done")
                       EXCEPT !.status = "scheduled"])

\* lines 731-740: playAlarmSound, foundAt = Date.now(), read the store
BeginFound(s, i, tab, mid) ==
    SetTask([s EXCEPT !.alarm = TRUE],
            i, [NewTask("found", "found_got", tab, mid)
                    EXCEPT !.at = s.now, !.snap = s.monitors])

\* a found that would leave the watch's nextRefreshTime in place
MarkFoundKeepDeadline(m, foundAt) ==
    [m EXCEPT !.found = TRUE, !.foundAt = foundAt]

\* a found that would not record when the match was seen
MarkFoundUndated(m, foundAt) ==
    [m EXCEPT !.found = TRUE, !.nextRefreshTime = Null]

\* lines 743-745
MarkFound(m, foundAt) ==
    [m EXCEPT !.found = TRUE, !.foundAt = foundAt, !.nextRefreshTime = Null]

\* lines 742-748, or 766-767 for an unknown monitor
FoundGot(s, i) ==
    LET t == s.tasks[i]
    IN IF t.mid \in DOMAIN t.snap
       THEN SetTask([s EXCEPT !.monitors =
                        [t.snap EXCEPT ![t.mid] = MarkFound(@, t.at)]],
                    i, [t EXCEPT !.pc = "found_saved",
                                 !.tab = t.snap[t.mid].tabId,
                                 !.snap = NoMonitors, !.at = Null])
       ELSE SetTask(s, i, Finish(t, "found"))

\* lines 751-760: focus the tab and its window (tabs.get, windows.update,
\* tabs.update; a failure is caught)
FoundSaved(s, i) == SetTask(s, i, [s.tasks[i] EXCEPT !.pc = "found_focus"])

\* line 763, then 766-767 on return
FoundFocus(s, i) ==
    LET t == s.tasks[i]
    IN SetTask(s, i, [CallSchedule(s, t, t.tab, "done")
                          EXCEPT !.status = "found"])

\* ------------------------------------------------------- tabs.onRemoved
\* DropFlag without the return of line 837: the cleanup of lines 840-851
\* runs for the flagged tab too
DropFlagAndClean(s, tab) ==
    [s EXCEPT !.removed = s.removed \ {tab},
              !.tabsBeingReset = s.tabsBeingReset \ {tab},
              !.monitors = Remove(s.monitors, MonitorsForTab(s.monitors, tab))]

\* lines 834-837: the event of a flagged tab drops the flag and returns
DropFlag(s, tab) ==
    [s EXCEPT !.removed = s.removed \ {tab},
              !.tabsBeingReset = s.tabsBeingReset \ {tab}]

\* lines 834-838: the tab was closed by a session reset: drop the flag
RemovedFlagged ==
    \E tab \in removed \cap tabsBeingReset : Apply(DropFlag(St, tab))

\* line 840
BeginOnRemoved(s, i, tab) ==
    SetTask([s EXCEPT !.removed = s.removed \ {tab}],
            i, [NewTask("onRemoved", "removed_got", tab, 0)
                    EXCEPT !.snap = s.monitors])

\* lines 841-851
RemovedGot(s, i) ==
    LET t == s.tasks[i]
        gone == MonitorsForTab(t.snap, t.tab)
    IN IF gone # {}
       THEN SetTask([s EXCEPT !.monitors = Remove(t.snap, gone)],
                    i, [t EXCEPT !.pc = "removed_saved", !.snap = NoMonitors])
       ELSE SetTask(s, i, Finish(t, "unchanged"))

\* lines 852-854
RemovedSaved(s, i) ==
    LET t == s.tasks[i]
    IN SetTask([ClearTabTimer(s, t.tab) EXCEPT !.alarm = FALSE],
               i, Finish(t, "removed"))

\* ------------------------------------------------------- stuck watchdog
\* lines 428-429: the interval fires and reads the store
BeginWatchdog(s, i) ==
    SetTask(s, i, [NewTask("watchdog", "wd_got", 0, 0)
                       EXCEPT !.snap = s.monitors])

\* an interval callback that would stop the watchdog whatever the store holds
WdGotStopAnyway(s, i) ==
    SetTask([s EXCEPT !.stuckWatchdogTimer = FALSE],
            i, Finish(s.tasks[i], "stopped"))

\* lines 430-438 and 365: no active monitor: stopStuckWatchdog; else
\* checkForStuckMonitors reads the store
WdGot(s, i) ==
    LET t == s.tasks[i]
    IN IF \A id \in DOMAIN t.snap : t.snap[id].found
       THEN SetTask([s EXCEPT !.stuckWatchdogTimer = FALSE],
                    i, Finish(t, "stopped"))
       ELSE SetTask(s, i, [t EXCEPT !.pc = "wd_check", !.snap = s.monitors])

\* a sweep that would treat every passed deadline as stuck
IsOverdue(m, time) ==
    /\ ~m.found
    /\ m.nextRefreshTime # Null
    /\ m.nextRefreshTime # 0
    /\ time - m.nextRefreshTime > 0

\* lines 371-374
IsStuck(m, time) ==
    /\ ~m.found
    /\ m.nextRefreshTime # Null
    /\ m.nextRefreshTime # 0
    /\ time - m.nextRefreshTime > STUCK_THRESHOLD_MS

\* tabsToRefresh is a Set filled in the store's key order and iterated in
\* insertion order: the tabs of the stuck monitors by ascending monitor id
RECURSIVE TabsInOrder(_, _, _)
TabsInOrder(mons, ids, acc) ==
    IF ids = {} THEN acc
    ELSE LET id == Min(ids)
             tab == mons[id].tabId
         IN TabsInOrder(mons, ids \ {id},
                        IF \E k \in 1 .. Len(acc) : acc[k] = tab
                        THEN acc ELSE Append(acc, tab))

StuckTabs(mons, time) ==
    TabsInOrder(mons, {id \in DOMAIN mons : IsStuck(mons[id], time)}, <<>>)

\* the for loop of line 382 moves on to its next tab, asking tabs.get for
\* it, or the sweep ends
WdNext(t, queue) ==
    IF queue = <<>>
    THEN Finish(t, IF t.todo \cup t.groups = {} THEN "checked" ELSE "forced")
    ELSE [t EXCEPT !.pc = "wd_tab", !.tab = Head(queue), !.queue = Tail(queue),
                   !.snap = NoMonitors, !.snap2 = NoMonitors]

\* lines 366-384
WdCheck(s, i) ==
    LET t == s.tasks[i]
    IN SetTask(s, i, WdNext(t, StuckTabs(t.snap, s.now)))

\* lines 384-388 / 409-411: tabs.get answered; both branches read the store
WdTab(s, i) ==
    LET t == s.tasks[i]
    IN SetTask(s, i, [t EXCEPT !.pc = IF t.tab \in s.tabs THEN "wd_cur"
                                      ELSE "wd_gone",
                               !.snap = s.monitors])

\* line 389: currentMonitors arrived; getActiveMonitorsForTab reads again
WdCur(s, i) ==
    SetTask(s, i, [s.tasks[i] EXCEPT !.pc = "wd_active",
                                     !.snap2 = s.monitors])

\* lines 399-404
WatchdogStamp(cur, tab, nrt) ==
    [id \in DOMAIN cur |->
        IF cur[id].tabId = tab /\ ~cur[id].found
        THEN [cur[id] EXCEPT !.nextRefreshTime = nrt] ELSE cur[id]]

\* lines 391-405
WdActive(s, i) ==
    LET t == s.tasks[i]
        shortest == WatchdogShortestInterval(t.snap2,
                                             ActiveForTab(t.snap2, t.tab))
    IN SetTask([s EXCEPT !.monitors =
                    WatchdogStamp(t.snap, t.tab,
                                  s.now + shortest * 1000 + WatchdogBufferMs)],
               i, [t EXCEPT !.pc = "wd_saved", !.snap = NoMonitors,
                            !.snap2 = NoMonitors])

\* line 408: reload the tab (todo collects the reloaded tabs); then the
\* next tab
WdSaved(s, i) ==
    LET t == s.tasks[i]
    IN SetTask([s EXCEPT !.reloaded = s.reloaded \cup {t.tab}],
               i, WdNext([t EXCEPT !.todo = t.todo \cup {t.tab}], t.queue))

\* lines 411-417
WdGone(s, i) ==
    LET t == s.tasks[i]
    IN SetTask([s EXCEPT
                   !.monitors = Remove(t.snap, MonitorsForTab(t.snap, t.tab))],
               i, [t EXCEPT !.pc = "wd_gone_saved", !.snap = NoMonitors])

\* line 418 (groups collects the cleaned-up tabs), then the next tab
WdGoneSaved(s, i) ==
    LET t == s.tasks[i]
    IN SetTask(ClearTabTimer(s, t.tab), i,
               WdNext([t EXCEPT !.groups = t.groups \cup {t.tab}], t.queue))


\* -------------------------------------------------------- stopMonitoring
\* PushHistory without the pop of line 113
PushHistoryUncapped(h, m, id, time) ==
    <<[id |-> id, dismissedAt |-> time]>> \o h

\* PushHistory stamping the entry with the monitor's foundAt in place of
\* Date.now()
PushHistoryAtFound(h, m, id, time) ==
    LET entry == [id |-> id, dismissedAt |-> m.foundAt - 1]
        h2 == <<entry>> \o h
    IN IF Len(h2) > HistoryCap THEN SubSeq(h2, 1, Len(h2) - 1) ELSE h2

\* addToHistory, lines 109-114, applied to the history it read; an entry is
\* the monitor, named by its id, with the time it was dismissed
PushHistory(h, m, id, time) ==
    LET entry == [id |-> id, dismissedAt |-> time]
        h2 == <<entry>> \o h
    IN IF Len(h2) > HistoryCap THEN SubSeq(h2, 1, Len(h2) - 1) ELSE h2

\* lines 543-544: the dashboard or popup asks to stop one monitor
BeginStopMonitoring(s, i, mid) ==
    SetTask(s, i, [NewTask("stopMonitoring", "stop_got", 0, mid)
                       EXCEPT !.snap = s.monitors])

\* lines 546-552: unknown id: respond; found: addToHistory reads the
\* history first; otherwise delete and save
StopGot(s, i) ==
    LET t == s.tasks[i]
    IN IF t.mid \notin DOMAIN t.snap
       THEN SetTask(s, i, Finish(t, "stopped"))
       ELSE IF t.snap[t.mid].found
       THEN SetTask(s, i, [t EXCEPT !.pc = "stop_hist",
                                    !.tab = t.snap[t.mid].tabId,
                                    !.hsnap = s.history])
       ELSE SetTask([s EXCEPT !.monitors = Remove(t.snap, {t.mid})],
                    i, [t EXCEPT !.pc = "stop_saved",
                                 !.tab = t.snap[t.mid].tabId,
                                 !.snap = NoMonitors])

\* lines 109-114
StopHist(s, i) ==
    LET t == s.tasks[i]
    IN SetTask([s EXCEPT !.history =
                    PushHistory(t.hsnap, t.snap[t.mid], t.mid, s.now)],
               i, [t EXCEPT !.pc = "stop_hist_saved", !.hsnap = <<>>])

\* lines 551-552
StopHistSaved(s, i) ==
    LET t == s.tasks[i]
    IN SetTask([s EXCEPT !.monitors = Remove(t.snap, {t.mid})],
               i, [t EXCEPT !.pc = "stop_saved", !.snap = NoMonitors])

\* line 555
StopSaved(s, i) ==
    SetTask(s, i, [s.tasks[i] EXCEPT !.pc = "stop_remaining",
                                     !.snap = s.monitors])

\* lines 556-564
StopRemaining(s, i) ==
    LET t == s.tasks[i]
    IN IF ActiveForTab(t.snap, t.tab) = {}
       THEN SetTask(ClearTabTimer(s, t.tab), i, Finish(t, "stopped"))
       ELSE SetTask(s, i, [CallSchedule(s, t, t.tab, "done")
                               EXCEPT !.status = "stopped",
                                      !.snap = NoMonitors])

\* ------------------------------------------------------ stopAllMonitoring
\* lines 582-592: the loop over the tabs clears a timer and awaits the
\* dismissOverlay message; after the last tab the watchdog is stopped and
\* the empty store is saved
StopAllTabs(s, i, t, queue) ==
    IF queue = <<>>
    THEN SetTask([s EXCEPT !.stuckWatchdogTimer = FALSE,
                           !.monitors = NoMonitors],
                 i, [t EXCEPT !.pc = "stopall_saved", !.snap = NoMonitors,
                              !.queue = <<>>, !.hsnap = <<>>])
    ELSE SetTask(ClearTabTimer(s, Head(queue)),
                 i, [t EXCEPT !.pc = "stopall_msg", !.queue = Tail(queue),
                              !.hsnap = <<>>, !.snap = NoMonitors])

\* the store's keys in insertion order: monitor ids ascending
RECURSIVE InOrder(_)
InOrder(ids) ==
    IF ids = {} THEN <<>>
    ELSE <<Min(ids)>> \o InOrder(ids \ {Min(ids)})

\* line 570
BeginStopAllMonitoring(s, i) ==
    SetTask(s, i, [NewTask("stopAllMonitoring", "stopall_got", 0, 0)
                       EXCEPT !.snap = s.monitors])

\* lines 571-582: stop the alarm; the loop collects the tabs and archives
\* the found monitors one by one (addToHistory reads the history)
StopAllGot(s, i) ==
    LET t == s.tasks[i]
        found == {id \in DOMAIN t.snap : t.snap[id].found}
        quiet == [s EXCEPT !.alarm = FALSE]
    IN IF found # {}
       THEN SetTask(quiet, i, [t EXCEPT !.pc = "stopall_hist",
                                        !.queue = InOrder(found),
                                        !.hsnap = s.history])
       ELSE StopAllTabs(quiet, i, t, TabsInOrder(t.snap, DOMAIN t.snap, <<>>))

\* lines 109-114 for the monitor at the head of the queue
StopAllHist(s, i) ==
    LET t == s.tasks[i]
        id == Head(t.queue)
    IN SetTask([s EXCEPT !.history =
                    PushHistory(t.hsnap, t.snap[id], id, s.now)],
               i, [t EXCEPT !.pc = "stopall_hist_saved", !.hsnap = <<>>])

\* the history was saved: archive the next found monitor, or start on the tabs
StopAllHistSaved(s, i) ==
    LET t == s.tasks[i]
    IN IF Tail(t.queue) # <<>>
       THEN SetTask(s, i, [t EXCEPT !.pc = "stopall_hist",
                                    !.queue = Tail(t.queue),
                                    !.hsnap = s.history])
       ELSE StopAllTabs(s, i, t, TabsInOrder(t.snap, DOMAIN t.snap, <<>>))

\* lines 585-592
StopAllMsg(s, i) == StopAllTabs(s, i, s.tasks[i], s.tasks[i].queue)

\* lines 593-594
StopAllSaved(s, i) == SetTask(s, i, Finish(s.tasks[i], "all stopped"))

\* -------------------------------------------------- stopAlarm (one monitor)
\* lines 598-608: a dismissal from the dashboard or popup names the monitor
BeginStopAlarm(s, i, mid) ==
    SetTask([s EXCEPT !.alarm = FALSE],
            i, [NewTask("stopAlarm", "alarm_got", 0, mid)
                    EXCEPT !.snap = s.monitors])

\* lines 609-615
AlarmGot(s, i) ==
    LET t == s.tasks[i]
    IN IF t.mid \notin DOMAIN t.snap
       THEN SetTask(s, i, Finish(t, "alarm stopped"))
       ELSE IF t.snap[t.mid].found
       THEN SetTask(s, i, [t EXCEPT !.pc = "alarm_hist",
                                    !.tab = t.snap[t.mid].tabId,
                                    !.hsnap = s.history])
       ELSE SetTask([s EXCEPT !.monitors = Remove(t.snap, {t.mid})],
                    i, [t EXCEPT !.pc = "alarm_saved",
                                 !.tab = t.snap[t.mid].tabId,
                                 !.snap = NoMonitors])

\* lines 109-114
AlarmHist(s, i) ==
    LET t == s.tasks[i]
    IN SetTask([s EXCEPT !.history =
                    PushHistory(t.hsnap, t.snap[t.mid], t.mid, s.now)],
               i, [t EXCEPT !.pc = "alarm_hist_saved", !.hsnap = <<>>])

\* lines 614-615
AlarmHistSaved(s, i) ==
    LET t == s.tasks[i]
    IN SetTask([s EXCEPT !.monitors = Remove(t.snap, {t.mid})],
               i, [t EXCEPT !.pc = "alarm_saved", !.snap = NoMonitors])

\* lines 617-619: the save completed; dismissOverlay is sent to the tab
AlarmSaved(s, i) == SetTask(s, i, [s.tasks[i] EXCEPT !.pc = "alarm_msg"])

\* line 621
AlarmMsg(s, i) ==
    SetTask(s, i, [s.tasks[i] EXCEPT !.pc = "alarm_remaining",
                                     !.snap = s.monitors])

\* lines 622-624 and 642: the timer is cleared when nothing active is left,
\* and is left alone otherwise
AlarmRemaining(s, i) ==
    LET t == s.tasks[i]
    IN SetTask(IF ActiveForTab(t.snap, t.tab) = {}
               THEN ClearTabTimer(s, t.tab) ELSE s,
               i, Finish(t, "alarm stopped"))


\* --------------------------------------------------- handleErrorPageRetry
\* line 145: the call runs up to the storage get of getActiveMonitorsForTab
CallRecover(s, t, tab) ==
    [t EXCEPT !.pc = "err_active", !.tab = tab, !.target = tab,
              !.at = s.now, !.snap = s.monitors]

\* lines 810-822: the content script of a tab reports an error page
BeginErrorPageDetected(s, i, tab) ==
    SetTask(s, i, CallRecover(s, NewTask("errorPageDetected", "idle", tab, 0),
                              tab))

\* lines 147-164 and 272-275: nothing active: skip.  The first active
\* monitor decides: InPrivate reads the whole store, a normal tab is
\* navigated back to its URL (chrome.tabs.update).
ErrActive(s, i) ==
    LET t == s.tasks[i]
        active == ActiveForTab(t.snap, t.tab)
    IN IF active = {}
       THEN SetTask(s, i, Finish(t, "skipped"))
       ELSE IF t.snap[Min(active)].isIncognito
       THEN SetTask(s, i, [t EXCEPT !.pc = "reset_all", !.snap = s.monitors])
       ELSE SetTask([s EXCEPT !.navigated = s.navigated \cup {t.tab}],
                    i, [t EXCEPT !.pc = "err_nav", !.snap = NoMonitors])

\* ErrNav without line 284: no schedule after the navigation
ErrNavOnly(s, i) == SetTask(s, i, Finish(s.tasks[i], "retrying"))

\* lines 275-284: tabs.update answered (a failure is caught); schedule
ErrNav(s, i) ==
    LET t == s.tasks[i]
    IN SetTask(s, i, [CallSchedule(s, t, t.tab, "done")
                          EXCEPT !.status = "retrying"])

\* lines 199-205: flag every affected tab and cancel its timer
RECURSIVE ClearAll(_, _)
ClearAll(s, tabset) ==
    IF tabset = {} THEN s
    ELSE LET tab == Min(tabset)
         IN ClearAll(ClearTabTimer(s, tab), tabset \ {tab})

\* AfterEnum without lines 199-202: the timers are cancelled and the first
\* window closed with no tab flagged
AfterEnumUnflagged(s, i, t, groups, ids) ==
    IF groups = {}
    THEN SetTask(s, i, [CallSchedule(s, t, t.target, "done")
                            EXCEPT !.status = "retrying",
                                   !.snap = NoMonitors, !.queue = <<>>,
                                   !.groups = {}, !.todo = {}])
    ELSE SetTask(ClearAll(s, groups),
                 i, [t EXCEPT !.pc = "reset_close", !.groups = groups,
                              !.todo = ids, !.queue = InOrder(groups)])

\* lines 190-210: the enumeration is over.  No window: schedule the tab and
\* return.  Otherwise flag the tabs, cancel their timers and close the
\* first window.  Each InPrivate window holds one tab, so a window is named
\* by its tab; Object.keys orders the windows by ascending id.
AfterEnum(s, i, t, groups, ids) ==
    IF groups = {}
    THEN SetTask(s, i, [CallSchedule(s, t, t.target, "done")
                            EXCEPT !.status = "retrying",
                                   !.snap = NoMonitors, !.queue = <<>>,
                                   !.groups = {}, !.todo = {}])
    ELSE SetTask([ClearAll(s, groups) EXCEPT
                     !.tabsBeingReset = s.tabsBeingReset \cup groups],
                 i, [t EXCEPT !.pc = "reset_close", !.groups = groups,
                              !.todo = ids, !.queue = InOrder(groups)])

\* lines 164-177: the store arrived; the loop looks up the tab and window of
\* its first InPrivate monitor that is not found
ResetAll(s, i) ==
    LET t == s.tasks[i]
        ids == {id \in DOMAIN t.snap :
                   t.snap[id].isIncognito /\ ~t.snap[id].found}
    IN IF ids = {}
       THEN AfterEnum(s, i, t, {}, {})
       ELSE SetTask(s, i, [t EXCEPT !.pc = "reset_enum",
                                    !.queue = InOrder(ids), !.groups = {},
                                    !.todo = {}])

\* lines 172-188: tabs.get / windows.get answered for one monitor: a monitor
\* whose tab is gone is skipped, the others are grouped by window
ResetEnum(s, i) ==
    LET t == s.tasks[i]
        id == Head(t.queue)
        open == t.snap[id].tabId \in s.tabs
        groups == IF open THEN t.groups \cup {t.snap[id].tabId} ELSE t.groups
        ids == IF open THEN t.todo \cup {id} ELSE t.todo
    IN IF Tail(t.queue) = <<>>
       THEN AfterEnum(s, i, t, groups, ids)
       ELSE SetTask(s, i, [t EXCEPT !.queue = Tail(t.queue),
                                    !.groups = groups, !.todo = ids])

\* the browser closes a tab and queues its onRemoved event
CloseIn(s, tab) ==
    IF tab \in s.tabs
    THEN [s EXCEPT !.tabs = s.tabs \ {tab}, !.removed = s.removed \cup {tab}]
    ELSE s

\* lines 208-218: windows.remove answered for one window (a failure is
\* caught); close the next one, or wait 1.5 s (ms holds the delay asked of
\* setTimeout)
ResetClose(s, i) ==
    LET t == s.tasks[i]
    IN SetTask(CloseIn(s, Head(t.queue)), i,
               IF Tail(t.queue) = <<>>
               THEN [t EXCEPT !.pc = "reset_wait", !.queue = <<>>,
                              !.ms = ResetDelayMs]
               ELSE [t EXCEPT !.queue = Tail(t.queue)])

\* line 221: the delay is over; read the store again
ResetWait(s, i) ==
    LET t == s.tasks[i]
    IN SetTask(s, i, [t EXCEPT !.pc = "reset_read", !.snap2 = t.snap,
                               !.snap = s.monitors, !.ms = 0])

\* lines 223-248: updatedMonitors arrived; windows.create for the first group
ResetRead(s, i) ==
    LET t == s.tasks[i]
    IN SetTask(s, i, [t EXCEPT !.pc = "reset_open",
                               !.queue = InOrder(t.groups)])

\* lines 254-259: rebind the group's monitors that are still in the store;
\* the interval is the one enumerated before the windows were closed
Rebind(updated, enumerated, ids, orig, newTab, time) ==
    [id \in DOMAIN updated |->
        IF id \in ids /\ enumerated[id].tabId = orig
        THEN [updated[id] EXCEPT
                 !.tabId = newTab,
                 !.nextRefreshTime =
                     time + enumerated[id].interval * 1000 + ResetBufferMs]
        ELSE updated[id]]

\* lines 240-261: windows.create answered for one group with a new window:
\* rebind and save
ResetOpened(s, i) ==
    LET t == s.tasks[i]
        bound == Rebind(t.snap, t.snap2, t.todo, Head(t.queue), s.nextTab,
                        s.now)
    IN SetTask([s EXCEPT !.tabs = s.tabs \cup {s.nextTab},
                         !.nextTab = s.nextTab + 1,
                         !.monitors = bound],
               i, [t EXCEPT !.pc = "reset_saved", !.tab = s.nextTab,
                            !.queue = Tail(t.queue), !.snap = bound])

\* ResetFailed with the catch of line 263 around the whole loop: the first
\* failure ends the reset
ResetFailedAborts(s, i) ==
    SetTask([s EXCEPT !.refused = s.refused \cup {Head(s.tasks[i].queue)}],
            i, Finish(s.tasks[i], "inprivate-full-reset"))

\* lines 263-269: windows.create failed: the catch logs it and the loop
\* goes on
ResetFailed(s, i) ==
    LET t == s.tasks[i]
    IN SetTask([s EXCEPT !.refused = s.refused \cup {Head(t.queue)}],
               i, IF Tail(t.queue) = <<>>
                  THEN Finish(t, "inprivate-full-reset")
                  ELSE [t EXCEPT !.queue = Tail(t.queue)])

\* the browser opens the window (while it has ids to give) or refuses
ResetOpen(s, i) ==
    (IF s.nextTab <= MaxTabs THEN {ResetOpened(s, i)} ELSE {})
        \cup {ResetFailed(s, i)}

\* line 262, and on return the next group's windows.create or line 269
ResetSaved(s, i) ==
    LET t == s.tasks[i]
    IN SetTask(s, i, [CallSchedule(s, t, t.tab,
                                   IF t.queue = <<>> THEN "done"
                                   ELSE "reset_open")
                          EXCEPT !.status = "inprivate-full-reset"])

\* ------------------------------------------ webNavigation.onErrorOccurred
\* lines 898-909: a main-frame navigation error in some tab
BeginNavError(s, i, tab) ==
    SetTask(s, i, [NewTask("navError", "nav_active", tab, 0)
                       EXCEPT !.snap = s.monitors])

\* lines 924-928
ExpireNavErrors(rne, time) ==
    [tb \in TabIds |->
        IF rne[tb] # Null /\ time - rne[tb] > NavErrorExpiryMs
        THEN Null ELSE rne[tb]]

\* lines 910-944
NavActive(s, i) ==
    LET t == s.tasks[i]
        last == s.recentNavErrors[t.tab]
    IN IF ActiveForTab(t.snap, t.tab) = {}
       THEN SetTask(s, i, Finish(t, "ignored"))
       ELSE IF last # Null /\ s.now - last < NavErrorCooldownMs
       THEN SetTask(s, i, Finish(t, "duplicate"))
       ELSE SetTask([s EXCEPT !.recentNavErrors =
                        ExpireNavErrors([s.recentNavErrors EXCEPT
                                            ![t.tab] = s.now], s.now)],
                    i, CallRecover(s, t, t.tab))

\* -------------------------------------------------------- enableInPrivate
\* lines 483-484
BeginEnableInPrivate(s, i, mid) ==
    SetTask(s, i, [NewTask("enableInPrivate", "inp_got", 0, mid)
                       EXCEPT !.snap = s.monitors])

\* lines 486-508
InpGot(s, i) ==
    LET t == s.tasks[i]
    IN IF t.mid \notin DOMAIN t.snap
       THEN SetTask(s, i, Finish(t, "error"))
       ELSE IF t.snap[t.mid].isIncognito
       THEN SetTask(s, i, Finish(t, "already_enabled"))
       ELSE SetTask(s, i, [t EXCEPT !.pc = "inp_open",
                                    !.target = t.snap[t.mid].tabId])

\* lines 512-515
MoveToInPrivate(m, newTab, time) ==
    [m EXCEPT !.tabId = newTab, !.isIncognito = TRUE,
              !.incognitoCycleCount = 1,
              !.nextRefreshTime = time + m.interval * 1000 + StartBufferMs]

\* lines 504-517: the window was created: update the monitor and save
InpOpened(s, i) ==
    LET t == s.tasks[i]
    IN SetTask([s EXCEPT !.tabs = s.tabs \cup {s.nextTab},
                         !.nextTab = s.nextTab + 1,
                         !.monitors = [t.snap EXCEPT ![t.mid] =
                                 MoveToInPrivate(@, s.nextTab, s.now)]],
               i, [t EXCEPT !.pc = "inp_saved", !.tab = s.nextTab,
                            !.snap = NoMonitors])

\* lines 534-536: windows.create failed
InpFailed(s, i) == SetTask(s, i, Finish(s.tasks[i], "error"))

InpOpen(s, i) ==
    (IF s.nextTab <= MaxTabs THEN {InpOpened(s, i)} ELSE {})
        \cup {InpFailed(s, i)}

\* lines 520-527: drop the old tab's timer, schedule the new tab, then ask
\* the browser to close the old tab
InpSaved(s, i) ==
    LET t == s.tasks[i]
    IN SetTask(ClearTabTimer(s, t.target), i,
               CallSchedule(s, t, t.tab, "inp_close"))

\* lines 527-533: tabs.remove answered (a failure is caught)
InpClose(s, i) ==
    LET t == s.tasks[i]
    IN SetTask(CloseIn(s, t.target), i, Finish(t, "enabled"))

\* ---------------------------------------------------------- urlRedirected
\* lines 786-797: the content script reports a redirect
BeginUrlRedirected(s, i, tab) ==
    SetTask([s EXCEPT !.navigated = s.navigated \cup {tab}],
            i, NewTask("urlRedirected", "redir_nav", tab, 0))

\* lines 797-806: tabs.update answered; nothing is scheduled
RedirNav(s, i) ==
    LET t == s.tasks[i]
    IN IF t.tab \in s.tabs
       THEN SetTask(s, i, Finish(t, "redirected"))
       ELSE SetTask(s, i, Finish(t, "error"))


\* ------------------------------------------------------------ dispatcher
\* the states a suspended handler can move to when the await it is
\* suspended on completes
\* --------------------------------------------------------- restoreConfig
\* unnamed/part_002 lines 1265-1332, for a saved configuration of one
\* monitor (held in snap2[1]).  restore_cfg: the configuration arrived, the
\* store is read.  restore_got: the window or tab is asked for.
\* restore_open: it was created, and the monitor of lines 1300-1313 is put
\* in the handler's copy, or the creation failed (caught); the copy is
\* saved.  restore_saved: the tabs of the copy's active monitors are
\* scheduled one after the other (restore_loop).
Restore(s, i) ==
    LET t == s.tasks[i]
        saved == t.snap2[1]
        restored == [NewMonitor(s.nextTab, saved.interval, s.now)
                        EXCEPT !.isIncognito = saved.isIncognito,
                               !.incognitoCycleCount =
                                   IF saved.isIncognito THEN 1 ELSE 0]
        save(s1, store) ==
            SetTask([s1 EXCEPT !.monitors = store],
                    i, [t EXCEPT !.pc = "restore_saved", !.snap = store,
                                 !.snap2 = NoMonitors])
        loop(queue) ==
            IF queue = <<>> THEN SetTask(s, i, Finish(t, "restored"))
            ELSE SetTask(s, i,
                     [CallSchedule(s, [t EXCEPT !.queue = Tail(queue),
                                                !.snap = NoMonitors],
                                   Head(queue),
                                   IF Tail(queue) = <<>> THEN "done"
                                   ELSE "restore_loop")
                          EXCEPT !.status = "restored"])
    IN CASE t.pc = "restore_cfg" ->
              {SetTask(s, i, [t EXCEPT !.pc = "restore_got",
                                       !.snap = s.monitors])}
         [] t.pc = "restore_got" ->
              {SetTask(s, i, [t EXCEPT !.pc = "restore_open"])}
         [] t.pc = "restore_open" ->
              (IF s.nextTab <= MaxTabs
               THEN {save([s EXCEPT !.tabs = s.tabs \cup {s.nextTab},
                                    !.nextTab = s.nextTab + 1,
                                    !.nextId = s.nextId + 1],
                          Put(t.snap, s.nextId, restored))}
               ELSE {})
                  \cup {save(s, t.snap)}
         [] t.pc = "restore_saved" ->
              {loop(TabsInOrder(t.snap,
                                {id \in DOMAIN t.snap : ~t.snap[id].found},
                                <<>>))}
         [] OTHER -> {loop(t.queue)}

\* ------------------------------------------------------------ onStartup
\* lines 859-892, one await at a time.  boot_got: the store arrived; the
\* tabs of the active monitors are collected in key order (todo is empty
\* when hasActiveMonitors is false).  boot_tab: tabs.get answered for the
\* tab at the head of the queue: schedule the tab, or delete every monitor
\* of the gone tab from the handler's own copy and go on.  boot_save: the
\* handler's copy is saved.  boot_saved: the watchdog is started.
OnStartup(s, i) ==
    LET t == s.tasks[i]
        save(u) == SetTask([s EXCEPT !.monitors = u.snap],
                           i, [u EXCEPT !.pc = "boot_saved"])
        next(u) == IF u.queue = <<>> THEN save(u)
                   ELSE SetTask(s, i, [u EXCEPT !.pc = "boot_tab"])
    IN CASE t.pc = "boot_got" ->
              LET active == {id \in DOMAIN t.snap : ~t.snap[id].found}
              IN next([t EXCEPT
                          !.queue = TabsInOrder(t.snap, active, <<>>),
                          !.todo = {t.snap[id].tabId : id \in active}])
         [] t.pc = "boot_tab" ->
              LET tab == Head(t.queue)
                  rest == Tail(t.queue)
              IN IF tab \in s.tabs
                 THEN SetTask(s, i,
                          CallSchedule(s, [t EXCEPT !.queue = rest], tab,
                                       IF rest = <<>> THEN "boot_save"
                                       ELSE "boot_tab"))
                 ELSE next([t EXCEPT
                               !.queue = rest,
                               !.snap = Remove(t.snap,
                                            MonitorsForTab(t.snap, tab))])
         [] t.pc = "boot_save" -> save(t)
         [] OTHER ->
              SetTask([s EXCEPT !.stuckWatchdogTimer =
                          s.stuckWatchdogTimer \/ t.todo # {}],
                      i, Finish([t EXCEPT !.todo = {}], "restored"))

Seg(s, i) ==
    LET pc == s.tasks[i].pc
    IN CASE pc = "sched_active" -> {SchedActive(s, i)}
         [] pc = "sched_all" -> {SchedAll(s, i)}
         [] pc = "sched_saved" -> {SchedSaved(s, i)}
         [] pc = "timer_active" -> {TimerActive(s, i)}
         [] pc = "timer_tab" -> {TimerTab(s, i)}
         [] pc = "timer_gone" -> {TimerGone(s, i)}
         [] pc = "timer_cleaned" -> {TimerCleaned(s, i)}
         [] pc = "start_got" -> {StartGot(s, i)}
         [] pc = "start_saved" -> {StartSaved(s, i)}
         [] pc = "found_got" -> {FoundGot(s, i)}
         [] pc = "found_saved" -> {FoundSaved(s, i)}
         [] pc = "found_focus" -> {FoundFocus(s, i)}
         [] pc = "removed_got" -> {RemovedGot(s, i)}
         [] pc = "removed_saved" -> {RemovedSaved(s, i)}
         [] pc = "wd_got" -> {WdGot(s, i)}
         [] pc = "wd_check" -> {WdCheck(s, i)}
         [] pc = "wd_tab" -> {WdTab(s, i)}
         [] pc = "wd_cur" -> {WdCur(s, i)}
         [] pc = "wd_active" -> {WdActive(s, i)}
         [] pc = "wd_saved" -> {WdSaved(s, i)}
         [] pc = "wd_gone" -> {WdGone(s, i)}
         [] pc = "wd_gone_saved" -> {WdGoneSaved(s, i)}
         [] pc = "stop_got" -> {StopGot(s, i)}
         [] pc = "stop_hist" -> {StopHist(s, i)}
         [] pc = "stop_hist_saved" -> {StopHistSaved(s, i)}
         [] pc = "stop_saved" -> {StopSaved(s, i)}
         [] pc = "stop_remaining" -> {StopRemaining(s, i)}
         [] pc = "stopall_got" -> {StopAllGot(s, i)}
         [] pc = "stopall_hist" -> {StopAllHist(s, i)}
         [] pc = "stopall_hist_saved" -> {StopAllHistSaved(s, i)}
         [] pc = "stopall_msg" -> {StopAllMsg(s, i)}
         [] pc = "stopall_saved" -> {StopAllSaved(s, i)}
         [] pc = "alarm_got" -> {AlarmGot(s, i)}
         [] pc = "alarm_hist" -> {AlarmHist(s, i)}
         [] pc = "alarm_hist_saved" -> {AlarmHistSaved(s, i)}
         [] pc = "alarm_saved" -> {AlarmSaved(s, i)}
         [] pc = "alarm_msg" -> {AlarmMsg(s, i)}
         [] pc = "alarm_remaining" -> {AlarmRemaining(s, i)}
         [] pc = "err_active" -> {ErrActive(s, i)}
         [] pc = "err_nav" -> {ErrNav(s, i)}
         [] pc = "reset_all" -> {ResetAll(s, i)}
         [] pc = "reset_enum" -> {ResetEnum(s, i)}
         [] pc = "reset_close" -> {ResetClose(s, i)}
         [] pc = "reset_wait" -> {ResetWait(s, i)}
         [] pc = "reset_read" -> {ResetRead(s, i)}
         [] pc = "reset_open" -> ResetOpen(s, i)
         [] pc = "reset_saved" -> {ResetSaved(s, i)}
         [] pc = "nav_active" -> {NavActive(s, i)}
         [] pc = "inp_got" -> {InpGot(s, i)}
         [] pc = "inp_open" -> InpOpen(s, i)
         [] pc = "inp_saved" -> {InpSaved(s, i)}
         [] pc = "inp_close" -> {InpClose(s, i)}
         [] pc = "redir_nav" -> {RedirNav(s, i)}
         [] pc \in {"boot_got", "boot_tab", "boot_save", "boot_saved"} ->
              {OnStartup(s, i)}
         [] pc \in {"restore_cfg", "restore_got", "restore_open",
                    "restore_saved", "restore_loop"} -> Restore(s, i)
         [] OTHER -> {}

\* the handler in slot i runs until it returns, nothing else in between
RECURSIVE RunAll(_, _)
RunAll(S, i) ==
    IF \A s \in S : s.tasks[i].pc = "done" THEN S
    ELSE RunAll(UNION {IF s.tasks[i].pc = "done" THEN {s} ELSE Seg(s, i)
                          : s \in S}, i)

\* no handler is in flight
Idle == \A i \in Slots : Free(i)

\* a handler that returned leaves its slot
Settle(s) ==
    [s EXCEPT !.tasks = [i \in Slots |->
                            IF s.tasks[i].pc = "done" THEN IdleTask
                            ELSE s.tasks[i]]]

\* the awaits that are answered by the browser (tabs, windows, runtime
\* messages, the 1.5 s delay); every other await is on chrome.storage.local
BrowserPcs ==
    {"timer_tab", "found_focus", "wd_tab", "stopall_msg", "alarm_msg",
     "err_nav", "reset_enum", "reset_close", "reset_wait", "reset_open",
     "inp_open", "inp_close", "redir_nav", "boot_tab", "boot_save",
     "restore_open", "restore_loop"}

WaitsForStorage(t) == t.pc \notin {"idle", "done"} \cup BrowserPcs

\* slot i ran a segment: the storage request it was waiting for is answered,
\* and the one it issued, if any, is the youngest
Requeue(s, i) ==
    LET q == SelectSeq(s.storageQueue, LAMBDA j : j # i)
    IN [s EXCEPT !.storageQueue =
           IF WaitsForStorage(s.tasks[i]) THEN Append(q, i) ELSE q]

\* the handler begun in state s0 in slot i runs to its end in one step,
\* and returns with one of the given responses; it does not overtake a
\* handler that waits for the storage
HandleWith(s0, i, responses) ==
    /\ s0.storageQueue = <<>>
    /\ \E s2 \in RunAll({s0}, i) :
          /\ s2.tasks[i].status \in responses
          /\ Apply(Settle(s2))

\* the same, whatever the response
Handle(s0, i) ==
    /\ s0.storageQueue = <<>>
    /\ \E s2 \in RunAll({s0}, i) : Apply(Settle(s2))

\* ids generateId() has issued so far
Issued == 1 .. (nextId - 1)

\* ------------------------------------- handlers that run straight through
StartMonitoring ==
    \E i \in Slots :
        /\ CanBegin(i)
        /\ nextId <= MaxMonitors
        /\ \E tab \in tabs, interval \in Intervals :
              Handle(BeginStartMonitoring(St, i, tab, interval), i)

ScheduleRefresh ==
    \E i \in Slots :
        /\ CanBegin(i)
        /\ \E tab \in tabs : Handle(BeginScheduleRefresh(St, i, tab), i)

Found ==
    \E i \in Slots :
        /\ CanBegin(i)
        /\ \E mid \in Issued : Handle(BeginFound(St, i, 0, mid), i)

TimerFire ==
    \E i \in Slots :
        /\ CanBegin(i)
        /\ \E tm \in timers :
              /\ tm.due <= now
              /\ Handle(BeginTimer(St, i, tm), i)

OnRemoved ==
    \E i \in Slots :
        /\ CanBegin(i)
        /\ \E tab \in removed \ tabsBeingReset :
              Handle(BeginOnRemoved(St, i, tab), i)

Watchdog ==
    \E i \in Slots :
        /\ CanBegin(i)
        /\ stuckWatchdogTimer
        /\ Handle(BeginWatchdog(St, i), i)

StopMonitoring ==
    \E i \in Slots :
        /\ CanBegin(i)
        /\ \E mid \in Issued : Handle(BeginStopMonitoring(St, i, mid), i)

StopAllMonitoring ==
    \E i \in Slots :
        /\ CanBegin(i)
        /\ Handle(BeginStopAllMonitoring(St, i), i)

StopAlarm ==
    \E i \in Slots :
        /\ CanBegin(i)
        /\ \E mid \in Issued : Handle(BeginStopAlarm(St, i, mid), i)

ErrorPageDetected ==
    \E i \in Slots :
        /\ CanBegin(i)
        /\ \E tab \in tabs : Handle(BeginErrorPageDetected(St, i, tab), i)

NavError ==
    \E i \in Slots :
        /\ CanBegin(i)
        /\ \E tab \in tabs : Handle(BeginNavError(St, i, tab), i)

EnableInPrivate ==
    \E i \in Slots :
        /\ CanBegin(i)
        /\ \E mid \in Issued : Handle(BeginEnableInPrivate(St, i, mid), i)

UrlRedirected ==
    \E i \in Slots :
        /\ CanBegin(i)
        /\ \E tab \in tabs : Handle(BeginUrlRedirected(St, i, tab), i)

\* the user closes a tab
CloseTab == \E tab \in tabs : Apply(CloseIn(St, tab))

\* the last instant the clock is observed at
Horizon == MaxTicks * ClockStep

\* time passes between handlers
Tick ==
    /\ Idle
    /\ now < Horizon
    /\ Apply([St EXCEPT !.now = now + ClockStep])

\* Watching, scheduling, the watchdog and stopping; handlers run one at a
\* time.
Next ==
    \/ StartMonitoring
    \/ ScheduleRefresh
    \/ Found
    \/ TimerFire
    \/ OnRemoved
    \/ Watchdog
    \/ StopMonitoring
    \/ StopAllMonitoring
    \/ StopAlarm
    \/ CloseTab
    \/ Tick

Spec == Init /\ [][Next]_vars

\* ------------------------------------------- handlers interleave at awaits
\* a handler starts and runs up to its first await
Begin(i, s0) ==
    /\ CanBegin(i)
    /\ Apply(Requeue(s0, i))

\* the await a handler is suspended on completes; it runs to its next await.
\* Storage requests are answered in the order they were issued.
Resume(i) ==
    /\ ~Free(i)
    /\ WaitsForStorage(tasks[i]) => Head(storageQueue) = i
    /\ \E s2 \in Seg(St, i) : Apply(Settle(Requeue(s2, i)))

ScheduleRequest(i) ==
    \E tab \in tabs : Begin(i, BeginScheduleRefresh(St, i, tab))

ErrorReport(i) ==
    \E tab \in tabs : Begin(i, BeginErrorPageDetected(St, i, tab))

NavFailure(i) ==
    \E tab \in tabs : Begin(i, BeginNavError(St, i, tab))

\* Schedule requests and error signals of both detection paths arrive while
\* an earlier one is suspended, all within one 10 s window.
NextAsync ==
    \/ StartMonitoring
    \/ ScheduleRefresh
    \/ ErrorPageDetected
    \/ NavError
    \/ \E i \in Slots : ScheduleRequest(i)
    \/ \E i \in Slots : ErrorReport(i)
    \/ \E i \in Slots : NavFailure(i)
    \/ \E i \in Slots : Resume(i)

SpecAsync == Init /\ [][NextAsync]_vars

\* the content script of an InPrivate tab reports an error page while no
\* other handler is in flight
ResetReport(i) ==
    \E tab \in tabs :
        /\ Idle
        /\ IsIncognitoTab(tab)
        /\ Begin(i, BeginErrorPageDetected(St, i, tab))

\* The watchdog sweeps while an InPrivate session reset is suspended.
NextReset ==
    \/ StartMonitoring
    \/ EnableInPrivate
    \/ Watchdog
    \/ RemovedFlagged
    \/ Tick
    \/ \E i \in Slots : ResetReport(i)
    \/ \E i \in Slots : Resume(i)

SpecReset == Init /\ [][NextReset]_vars

\* ------------------------------------------------------------- history
\* a history of n earlier dismissals, newest first; their ids are not those
\* of the watches of this run
Filled(n) ==
    [k \in 1 .. n |-> [id |-> MaxMonitors + 1 + (n - k), dismissedAt |-> 0]]

\* lines 685-690: history.splice(index, 1) when the index is in range
RemoveAt(h, index) ==
    IF index >= 0 /\ index < Len(h)
    THEN [k \in 1 .. (Len(h) - 1) |-> IF k <= index THEN h[k] ELSE h[k + 1]]
    ELSE h

\* lines 683-692: the dashboard removes one entry (at most MaxRemovals
\* below the cap, to keep the histories few)
RemoveFromHistory ==
    /\ Idle
    /\ Len(history) + MaxRemovals > HistoryCap
    /\ \E index \in {0 - 1, 0, 1, Len(history) - 1, Len(history)} :
          Apply([St EXCEPT !.history = RemoveAt(history, index)])

\* lines 694-698
ClearHistory ==
    /\ Idle
    /\ Apply([St EXCEPT !.history = <<>>])

\* the worker starts with an empty store and a history that is empty, one
\* short of the cap, or full
InitHistory ==
    /\ monitors = NoMonitors
    /\ history \in {Filled(0), Filled(HistoryCap - 1), Filled(HistoryCap)}
    /\ refreshTimers = [t \in TabIds |-> "none"]
    /\ timers = {}
    /\ tabsBeingReset = {}
    /\ stuckWatchdogTimer = FALSE
    /\ recentNavErrors = [t \in TabIds |-> Null]
    /\ tabs = 1 .. UserTabs
    /\ nextTab = UserTabs + 1
    /\ nextId = 1
    /\ removed = {}
    /\ alarm = FALSE
    /\ now = ClockStep
    /\ tasks = [i \in Slots |-> IdleTask]
    /\ reloaded = {}
    /\ navigated = {}
    /\ refused = {}
    /\ storageQueue = <<>>
    /\ content = NoPage

\* Watches are found and dismissed, and the user edits the history.
NextHistory ==
    \/ StartMonitoring
    \/ Found
    \/ StopMonitoring
    \/ StopAllMonitoring
    \/ StopAlarm
    \/ RemoveFromHistory
    \/ ClearHistory

SpecHistory == InitHistory /\ [][NextHistory]_vars

\* a dismissal of a found watch arrives (stopMonitoring, stopAlarm with its
\* id), or everything is stopped when every watch is found, while an earlier
\* handler is suspended
Dismissal(i) ==
    \/ \E mid \in DOMAIN monitors :
          /\ monitors[mid].found
          /\ Begin(i, BeginStopMonitoring(St, i, mid))
    \/ \E mid \in DOMAIN monitors :
          /\ monitors[mid].found
          /\ Begin(i, BeginStopAlarm(St, i, mid))
    \/ /\ monitors # NoMonitors
       /\ \A mid \in DOMAIN monitors : monitors[mid].found
       /\ Begin(i, BeginStopAllMonitoring(St, i))

\* Watches are started (between the dismissals) and found; dismissals
\* interleave at their awaits.
NextDismiss ==
    \/ Idle /\ StartMonitoring
    \/ Found
    \/ \E i \in Slots : Dismissal(i)
    \/ \E i \in Slots : Resume(i)

SpecDismiss == Init /\ [][NextDismiss]_vars

\* a content script reports a match of a watch that the store holds as
\* Active, while another handler is suspended
FoundRequest(i) ==
    \E mid \in DOMAIN monitors :
        /\ ~monitors[mid].found
        /\ Begin(i, BeginFound(St, i, 0, mid))

\* Matches and schedule requests arrive while earlier handlers are
\* suspended.
NextRace ==
    \/ Idle /\ StartMonitoring
    \/ \E i \in Slots : ScheduleRequest(i)
    \/ \E i \in Slots : FoundRequest(i)
    \/ \E i \in Slots : Resume(i)

SpecRace == Init /\ [][NextRace]_vars

\* the clock moves on towards the moment the next pending timer is due,
\* also while a handler is suspended
Wait ==
    /\ timers # {}
    /\ \A tm \in timers : tm.due > now
    /\ now < Horizon
    /\ Apply([St EXCEPT !.now = now + ClockStep])

\* Matches are reported and the found handler is suspended at its awaits
\* while due timers run.
NextTimer ==
    \/ Idle /\ StartMonitoring
    \/ TimerFire
    \/ Wait
    \/ \E i \in Slots : FoundRequest(i)
    \/ \E i \in Slots : Resume(i)

SpecTimer == Init /\ [][NextTimer]_vars

\* the popup stops a watch while another handler waits for the browser
StopRequest(i) ==
    /\ \E j \in Slots : tasks[j].pc \in BrowserPcs
    /\ \E mid \in DOMAIN monitors : Begin(i, BeginStopMonitoring(St, i, mid))

\* Watches are stopped while an InPrivate session reset is suspended.
NextStop ==
    \/ Idle /\ StartMonitoring
    \/ Idle /\ EnableInPrivate
    \/ \E i \in Slots : ResetReport(i)
    \/ \E i \in Slots : StopRequest(i)
    \/ \E i \in Slots : Resume(i)

SpecStop == Init /\ [][NextStop]_vars

\* the popup stops everything while another handler is suspended
StopAllRequest(i) ==
    \E s0 \in {BeginStopAllMonitoring(St, i)} : Begin(i, s0)

\* Everything is stopped while schedule requests are in flight.
NextStopAll ==
    \/ Idle /\ StartMonitoring
    \/ \E i \in Slots : ScheduleRequest(i)
    \/ \E i \in Slots : StopAllRequest(i)
    \/ \E i \in Slots : Resume(i)

SpecStopAll == Init /\ [][NextStopAll]_vars

\* The user closes tabs, and their removal events are delivered, while an
\* InPrivate session reset is suspended.
NextFlag ==
    \/ Idle /\ StartMonitoring
    \/ Idle /\ EnableInPrivate
    \/ CloseTab
    \/ OnRemoved
    \/ RemovedFlagged
    \/ \E i \in Slots : ResetReport(i)
    \/ \E i \in Slots : Resume(i)

SpecFlag == Init /\ [][NextFlag]_vars

\* ---------------------------------------------- content.js: term matching
\* strings are sequences of characters; "A", "B" and "E" are the upper-case
\* letters of "a", "b" and "e"
ToLowerCase(str) ==
    [k \in 1 .. Len(str) |->
        IF str[k] = "A" THEN "a"
        ELSE IF str[k] = "B" THEN "b"
        ELSE IF str[k] = "E" THEN "e"
        ELSE str[k]]

\* String.prototype.includes
Includes(text, term) ==
    \E k \in 0 .. (Len(text) - Len(term)) :
        SubSeq(text, k + 1, k + Len(term)) = term

\* evaluateSearchTerms with the groups split at AND in place of OR
EvaluateAndSplit(searchTerms, pageTextLower) ==
    LET n == Len(searchTerms)
        loop[k \in 0 .. n] ==
            IF k = 0 THEN [orGroups |-> <<>>, currentGroup |-> <<>>]
            ELSE LET p == loop[k - 1]
                     entry == searchTerms[k]
                 IN IF entry.operator = "AND" /\ p.currentGroup # <<>>
                    THEN [orGroups |-> Append(p.orGroups, p.currentGroup),
                          currentGroup |-> <<entry.term>>]
                    ELSE [p EXCEPT !.currentGroup =
                              Append(p.currentGroup, entry.term)]
        orGroups == IF loop[n].currentGroup # <<>>
                    THEN Append(loop[n].orGroups, loop[n].currentGroup)
                    ELSE loop[n].orGroups
    IN IF n = 0 THEN FALSE
       ELSE IF n = 1
       THEN Includes(pageTextLower, ToLowerCase(searchTerms[1].term))
       ELSE \E g \in 1 .. Len(orGroups) :
               \A j \in 1 .. Len(orGroups[g]) :
                   Includes(pageTextLower, ToLowerCase(orGroups[g][j]))

\* lines 367-397: loop[k] is (orGroups, currentGroup) after the k-th entry
\* of the for loop of lines 379-385
EvaluateSearchTerms(searchTerms, pageTextLower) ==
    LET n == Len(searchTerms)
        loop[k \in 0 .. n] ==
            IF k = 0 THEN [orGroups |-> <<>>, currentGroup |-> <<>>]
            ELSE LET p == loop[k - 1]
                     entry == searchTerms[k]
                 IN IF entry.operator = "OR" /\ p.currentGroup # <<>>
                    THEN [orGroups |-> Append(p.orGroups, p.currentGroup),
                          currentGroup |-> <<entry.term>>]
                    ELSE [p EXCEPT !.currentGroup =
                              Append(p.currentGroup, entry.term)]
        orGroups == IF loop[n].currentGroup # <<>>
                    THEN Append(loop[n].orGroups, loop[n].currentGroup)
                    ELSE loop[n].orGroups
    IN IF n = 0 THEN FALSE
       ELSE IF n = 1
       THEN Includes(pageTextLower, ToLowerCase(searchTerms[1].term))
       ELSE \E g \in 1 .. Len(orGroups) :
               \A j \in 1 .. Len(orGroups[g]) :
                   Includes(pageTextLower, ToLowerCase(orGroups[g][j]))

\* content.js lines 301-320: a page is an error page when its text holds one
\* of the ERROR_PATTERNS; the pattern list is one pattern, "e", here, and
\* the page title is left out
ERROR_PATTERNS == {<<"e">>}

IsErrorPage(pageText) ==
    \E pattern \in ERROR_PATTERNS : Includes(ToLowerCase(pageText), pattern)

\* the pages that hold an error pattern, alone and beside a search term
ErrorPages == {<<"e">>, <<"e", "c">>, <<"c", "E">>}

\* a URL: its origin, its path as a sequence of characters and its query
\* string; the watch's configured URL
WatchedUrl == [origin |-> "https://a", pathname |-> <<"/", "p">>,
               search |-> ""]

\* the addresses the page may be at: the configured URL, the same with a
\* trailing slash, with two trailing slashes or with a query string,
\* another path and another origin
Locations ==
    {WatchedUrl,
     [WatchedUrl EXCEPT !.pathname = <<"/", "p", "/">>],
     [WatchedUrl EXCEPT !.pathname = <<"/", "p", "/", "/">>],
     [WatchedUrl EXCEPT !.search = "?x"],
     [WatchedUrl EXCEPT !.pathname = <<"/", "q">>],
     [WatchedUrl EXCEPT !.origin = "https://b"]}

\* content.js lines 343-344: origin + pathname.replace(/\/$/, ''): one
\* trailing slash goes, the query string is not part of either
UrlBase(u) ==
    <<u.origin,
      IF u.pathname # <<>> /\ u.pathname[Len(u.pathname)] = "/"
          THEN SubSeq(u.pathname, 1, Len(u.pathname) - 1)
          ELSE u.pathname>>

\* a comparison of the origins alone
IsOriginChanged(originalUrl, currentUrl) ==
    /\ originalUrl # NoPage.url
    /\ originalUrl.origin # currentUrl.origin

\* content.js lines 334-362, with getOriginalUrl (lines 323-332) giving
\* null for a watch whose URL is the empty one
IsUrlRedirected(originalUrl, currentUrl) ==
    /\ originalUrl # NoPage.url
    /\ UrlBase(originalUrl) # UrlBase(currentUrl)

\* a tab's content script holds one watch with up to MaxEntries terms (the
\* first entry's operator is null, shared.js line 303) and a page of up to
\* MaxPageLen characters has loaded
InitMatch ==
    /\ \E n \in 0 .. MaxEntries, len \in 0 .. MaxPageLen :
          content \in
              [searchTerms :
                   {st \in [1 .. n ->
                               [term : {<<"A">>, <<"b">>, <<"c">>,
                                        <<"b", "c">>},
                                operator : {"null", "AND", "OR"}]] :
                       n > 0 => st[1].operator = "null"},
               pageText : [1 .. len -> {"a", "B", "c"}] \cup ErrorPages,
               isMatch : {FALSE}, checked : {FALSE},
               url : {NoPage.url, WatchedUrl}, location : Locations,
               searchText : {<<"c">>}, sent : {{}}]
    /\ monitors = NoMonitors
    /\ history = <<>>
    /\ refreshTimers = [t \in TabIds |-> "none"]
    /\ timers = {}
    /\ tabsBeingReset = {}
    /\ stuckWatchdogTimer = FALSE
    /\ recentNavErrors = [t \in TabIds |-> Null]
    /\ tabs = 1 .. UserTabs
    /\ nextTab = UserTabs + 1
    /\ nextId = 1
    /\ removed = {}
    /\ alarm = FALSE
    /\ now = ClockStep
    /\ tasks = [i \in Slots |-> IdleTask]
    /\ reloaded = {}
    /\ navigated = {}
    /\ refused = {}
    /\ storageQueue = <<>>

\* content.js lines 399-486, for the one watch the script holds: an empty
\* page asks for the next refresh (407-411), a redirected page reports the
\* redirection (415-424), an error page reports the error (428-435);
\* otherwise the page text is lower-cased (437), the watch's terms are
\* evaluated against it (450), a watch without terms looking for its
\* searchText instead (454), and the watch is reported found (463-467) or
\* the next refresh is asked for
CheckAllMonitors ==
    /\ ~content.checked
    /\ LET pageTextLower == ToLowerCase(content.pageText)
           isMatch ==
               IF Len(content.searchTerms) > 0
                   THEN EvaluateSearchTerms(content.searchTerms,
                                            pageTextLower)
                   ELSE Includes(pageTextLower,
                                 ToLowerCase(content.searchText))
       IN content' =
              IF content.pageText = <<>>
                  THEN [content EXCEPT !.checked = TRUE,
                                       !.sent = {"scheduleRefresh"}]
              ELSE IF IsUrlRedirected(content.url, content.location)
                  THEN [content EXCEPT !.checked = TRUE,
                                       !.sent = {"urlRedirected"}]
              ELSE IF IsErrorPage(content.pageText)
                  THEN [content EXCEPT !.checked = TRUE,
                                       !.sent = {"errorPageDetected"}]
              ELSE [content EXCEPT
                       !.checked = TRUE,
                       !.isMatch = isMatch,
                       !.sent = IF isMatch THEN {"found"}
                                           ELSE {"scheduleRefresh"}]
    /\ UNCHANGED <<monitors, history, refreshTimers, timers, tabsBeingReset,
                   stuckWatchdogTimer, recentNavErrors, tabs, nextTab, nextId,
                   removed, alarm, now, tasks, reloaded, navigated, refused,
                   storageQueue>>

SpecMatch == InitMatch /\ [][CheckAllMonitors]_vars

\* ------------------------------------------------------ creating watches
\* the popup restores a saved configuration of one monitor, normal or
\* InPrivate
RestoreConfig ==
    \E i \in Slots :
        /\ CanBegin(i)
        /\ nextId <= MaxMonitors
        /\ \E interval \in Intervals, inPrivate \in BOOLEAN :
              Handle(SetTask(St, i,
                         [NewTask("restoreConfig", "restore_cfg", 0, 0)
                             EXCEPT !.snap2 =
                                 [k \in {1} |->
                                     [NewMonitor(0, interval, 0) EXCEPT
                                         !.isIncognito = inPrivate]]]), i)

\* Watches are created by the popup and by restoring a configuration, and
\* their pages report.
NextCreate ==
    \/ StartMonitoring
    \/ RestoreConfig
    \/ Found
    \/ ScheduleRefresh
    \/ UrlRedirected

SpecCreate == Init /\ [][NextCreate]_vars

\* ------------------------------------------------------------ cold start
\* the browser starts with one or two persisted monitors, each on a tab
\* that was restored (1) or on one that is gone (UserTabs + 1), and
\* onStartup has asked for the store
InitBoot ==
    /\ \E n \in 1 .. MaxMonitors :
          /\ monitors \in
                [1 .. n ->
                   {[NewMonitor(tab, interval, 0)
                        EXCEPT !.found = f,
                               !.foundAt = IF f THEN 0 ELSE Null,
                               !.nextRefreshTime =
                                   IF f THEN Null ELSE interval * 1000]
                      : tab \in {1, UserTabs + 1}, interval \in Intervals,
                        f \in BOOLEAN}]
          /\ nextId = n + 1
    /\ history = <<>>
    /\ refreshTimers = [t \in TabIds |-> "none"]
    /\ timers = {}
    /\ tabsBeingReset = {}
    /\ stuckWatchdogTimer = FALSE
    /\ recentNavErrors = [t \in TabIds |-> Null]
    /\ tabs = 1 .. UserTabs
    /\ nextTab = UserTabs + 2
    /\ removed = {}
    /\ alarm = FALSE
    /\ now = ClockStep
    /\ tasks = [i \in Slots |->
                  IF i = 1
                  THEN [NewTask("onStartup", "boot_got", 0, 0)
                            EXCEPT !.snap = monitors]
                  ELSE IdleTask]
    /\ reloaded = {}
    /\ navigated = {}
    /\ refused = {}
    /\ storageQueue = <<1>>
    /\ content = NoPage

\* the popup starts a watch while another handler is suspended
StartRequest(i) ==
    /\ nextId <= MaxMonitors
    /\ \E tab \in tabs, interval \in Intervals :
          Begin(i, BeginStartMonitoring(St, i, tab, interval))

\* onStartup runs; messages are handled as they arrive.
NextBoot ==
    \/ \E i \in Slots : StartRequest(i)
    \/ \E i \in Slots : Resume(i)

SpecBoot == InitBoot /\ [][NextBoot]_vars

\* ------------------------------------------------------ error recovery
\* Watches in normal and InPrivate windows; pages load or report an error
\* page, and each recovery runs to its end before the next event.
NextRecover ==
    \/ StartMonitoring
    \/ EnableInPrivate
    \/ ScheduleRefresh
    \/ ErrorPageDetected
    \/ RemovedFlagged
    \/ OnRemoved
    \/ Tick

SpecRecover == Init /\ [][NextRecover]_vars

\* ---------------------------------------------------- timers are fair
\* the clock moves on while a timer or the watchdog interval is pending
Elapse ==
    /\ timers # {} \/ stuckWatchdogTimer
    /\ Tick

\* The outcome message of a page load (ScheduleRefresh) may be lost; a due
\* timer and the running interval do fire.
NextFair ==
    \/ StartMonitoring
    \/ ScheduleRefresh
    \/ TimerFire
    \/ Watchdog
    \/ CloseTab
    \/ OnRemoved
    \/ Elapse

SpecFair ==
    /\ Init
    /\ [][NextFair]_vars
    /\ WF_vars(TimerFire)
    /\ WF_vars(Watchdog)
    /\ WF_vars(OnRemoved)
    /\ WF_vars(Elapse)

\* ================================================================ claims

\* the Active watches of a tab all carry `time` plus the shortest of their
\* intervals as nextRefreshTime
Aligned(mons, tab, time) ==
    LET A == ActiveForTab(mons, tab)
    IN \A id \in A :
          \E k \in A :
              /\ \A j \in A : mons[k].interval <= mons[j].interval
              /\ mons[id].nextRefreshTime = time + mons[k].interval * 1000

\* exactly one timer is pending for the tab, and it is the one in the Map
ArmedOnce(tm, rt, tab) ==
    /\ Cardinality({t \in tm : t.tab = tab}) = 1
    /\ \A t \in tm : t.tab = tab => t.tracked
    /\ rt[tab] = "armed"

\* steps of the handlers, by the tab they are about
StartsOn(tab) ==
    /\ tab \in tabs
    /\ nextId <= MaxMonitors
    /\ \E i \in Slots, interval \in Intervals :
          CanBegin(i) /\ Handle(BeginStartMonitoring(St, i, tab, interval), i)

StopsOn(tab) ==
    \E mid \in DOMAIN monitors :
        /\ monitors[mid].tabId = tab
        /\ \E i \in Slots :
              CanBegin(i) /\ Handle(BeginStopMonitoring(St, i, mid), i)

DismissesOn(tab) ==
    \E mid \in DOMAIN monitors :
        /\ monitors[mid].tabId = tab
        /\ \E i \in Slots :
              CanBegin(i) /\ Handle(BeginStopAlarm(St, i, mid), i)

FoundStep(mid) ==
    \E i \in Slots : CanBegin(i) /\ Handle(BeginFound(St, i, 0, mid), i)

FoundOn(tab) ==
    \E mid \in DOMAIN monitors :
        monitors[mid].tabId = tab /\ FoundStep(mid)

SchedulesOn(tab) ==
    /\ tab \in tabs
    /\ \E i \in Slots :
          CanBegin(i) /\ Handle(BeginScheduleRefresh(St, i, tab), i)

\* C1 as stated: immediately after startMonitoring, stopMonitoring, a
\* dismissal or found for a tab, every Active watch of the tab has
\* nextRefreshTime = time of the operation + the minimum interval of the
\* tab's Active watches.
C1_AlignedAfterEveryChange ==
    [][\A tab \in TabIds :
          (StartsOn(tab) \/ StopsOn(tab) \/ DismissesOn(tab) \/ FoundOn(tab))
              => Aligned(monitors', tab, now)]_vars

\* C1 as the code has it: stopMonitoring, found and a schedule request
\* re-run the schedule, which leaves every Active watch of the tab with
\* nextRefreshTime = now + the minimum interval; startMonitoring stamps only
\* the new watch, with now + its own interval + 2 s, and a dismissal
\* (stopAlarm) leaves the nextRefreshTime of the watches that stay as it was.
\* (Each conjunct is an implication P => Q, written Q \/ ~P.)
C1_AlignedAfterSchedule ==
    [][\A tab \in TabIds :
          /\ \/ Aligned(monitors', tab, now)
             \/ ~(StopsOn(tab) \/ FoundOn(tab) \/ SchedulesOn(tab))
          /\ \/ /\ nextId \in DOMAIN monitors'
                /\ monitors'[nextId].tabId = tab
                /\ monitors'[nextId].nextRefreshTime =
                       now + monitors'[nextId].interval * 1000 + StartBufferMs
                /\ \A id \in DOMAIN monitors :
                       id \in DOMAIN monitors' /\ monitors'[id] = monitors[id]
             \/ ~StartsOn(tab)
          /\ \/ \A id \in DOMAIN monitors' :
                   id \in DOMAIN monitors /\ monitors'[id] = monitors[id]
             \/ ~DismissesOn(tab)]_vars

\* C1 witness: a watch was just added to a tab that already had a scheduled
\* Active watch; the two carry different deadlines.
C1_NewWatchOwnDeadline ==
    \E a \in DOMAIN monitors, b \in DOMAIN monitors :
        /\ a < b
        /\ monitors[a].tabId = monitors[b].tabId
        /\ ~monitors[a].found /\ ~monitors[b].found
        /\ monitors[b].nextRefreshTime = now + monitors[b].interval * 1000 + 2000
        /\ monitors[a].nextRefreshTime = now + monitors[a].interval * 1000
        /\ ArmedOnce(timers, refreshTimers, monitors[a].tabId)

\* C2: a schedule call that starts after the previous one completed, with
\* Active watches on the tab, ends with exactly one pending timer for the
\* tab, tracked in refreshTimers - whether or not a timer was armed before.
C2_ScheduleIdempotent ==
    [][\A tab \in TabIds :
          (ActiveForTab(monitors, tab) # {} /\ SchedulesOn(tab))
              => ArmedOnce(timers', refreshTimers', tab)]_vars

\* C2 witness: the schedule just ran for a tab, at a later instant than the
\* one its watch was started at: one timer is pending for the tab, due at
\* the freshly stamped nextRefreshTime.
C2_RearmedOnce ==
    \E tab \in TabIds :
        /\ now > ClockStep
        /\ ArmedOnce(timers, refreshTimers, tab)
        /\ ActiveForTab(monitors, tab) # {}
        /\ \A id \in ActiveForTab(monitors, tab) :
              /\ monitors[id].nextRefreshTime > now
              /\ \A t \in timers :
                    t.tab = tab => t.due = monitors[id].nextRefreshTime

\* C3: at most one timer is pending for a tab at any time, and every
\* pending timer is the one tracked in refreshTimers.
C3_OneTrackedTimer ==
    \A tab \in TabIds :
        /\ Cardinality({t \in timers : t.tab = tab}) <= 1
        /\ \A t \in timers : t.tab = tab => t.tracked

\* the timer of a tab fires and finds the tab gone
GoneByTimer(tab) ==
    \E i \in Slots, tm \in timers :
        /\ CanBegin(i)
        /\ tm.tab = tab
        /\ tm.due <= now
        /\ HandleWith(BeginTimer(St, i, tm), i, {"removed"})

\* an onRemoved event of a tab that no reset flagged is delivered
RemovedUnflagged(tab) ==
    /\ tab \in removed \ tabsBeingReset
    /\ \E i \in Slots : CanBegin(i) /\ Handle(BeginOnRemoved(St, i, tab), i)

\* C4: when a tab's timer fires and the tab lookup fails, or an unflagged
\* onRemoved event arrives for it, no watch bound to the tab is left in the
\* store and no timer is armed for the tab.
C4_TerminalCleanup ==
    [][\A tab \in TabIds :
          (GoneByTimer(tab) \/ RemovedUnflagged(tab))
              => /\ MonitorsForTab(monitors', tab) = {}
                 /\ {t \in timers' : t.tab = tab} = {}
                 /\ refreshTimers'[tab] # "armed"]_vars

\* C4 witness: a closed tab whose onRemoved event is still to come, that had
\* a timer: the timer found the tab gone; its watches and timer are gone.
C4_GoneTabCleaned ==
    \E tab \in TabIds :
        /\ tab \notin tabs
        /\ tab \in removed
        /\ MonitorsForTab(monitors, tab) = {}
        /\ {t \in timers : t.tab = tab} = {}
        /\ refreshTimers[tab] = "none"
        /\ stuckWatchdogTimer
        /\ monitors = NoMonitors
        /\ nextId > MaxMonitors
        /\ history = <<>>

\* C5: a found message for a watch in the store makes it Found, stamps
\* foundAt, clears nextRefreshTime, plays the alarm and re-runs the schedule
\* of its tab: the Active watches left get now + their minimum interval and
\* one timer due then, or the timer is cleared when none is left.  A found
\* message for an unknown id changes no watch.
C5_Found ==
    [][\A mid \in MonitorIds :
          FoundStep(mid) =>
              IF mid \in DOMAIN monitors
              THEN LET tab == monitors[mid].tabId
                       rest == ActiveForTab(monitors', tab)
                   IN /\ mid \in DOMAIN monitors'
                      /\ monitors'[mid].found
                      /\ monitors'[mid].foundAt = now
                      /\ monitors'[mid].nextRefreshTime = Null
                      /\ alarm'
                      /\ IF rest = {}
                         THEN /\ {t \in timers' : t.tab = tab} = {}
                              /\ refreshTimers'[tab] = "none"
                         ELSE /\ Aligned(monitors', tab, now)
                              /\ ArmedOnce(timers', refreshTimers', tab)
                              /\ \A t \in timers', id \in rest :
                                    t.tab = tab =>
                                        t.due = monitors'[id].nextRefreshTime
              ELSE monitors' = monitors]_vars

\* C5 witness: one watch of a tab was just found; the other, still Active,
\* has a fresh deadline and the tab's timer.
C5_FoundAndRescheduled ==
    \E a \in DOMAIN monitors, b \in DOMAIN monitors :
        /\ monitors[a].tabId = monitors[b].tabId
        /\ monitors[a].found
        /\ monitors[a].foundAt = now
        /\ monitors[a].nextRefreshTime = Null
        /\ alarm
        /\ ~monitors[b].found
        /\ monitors[b].nextRefreshTime = now + monitors[b].interval * 1000
        /\ ArmedOnce(timers, refreshTimers, monitors[b].tabId)

\* the tab is open and has an Active watch
Watched(tab) == tab \in tabs /\ ActiveForTab(monitors, tab) # {}

\* C6: a tab that stays open with an Active watch is reloaded again and
\* again (until the clock is no longer observed), provided due timers and
\* the watchdog interval do fire.
C6_NoWedge ==
    \A tab \in TabIds :
        <>[]Watched(tab) => ([]<>(tab \in reloaded) \/ <>[](now = Horizon))

\* a watch of the tab is Active with a nextRefreshTime more than 30 s ago
Overdue(tab) ==
    \E id \in DOMAIN monitors :
        /\ monitors[id].tabId = tab
        /\ ~monitors[id].found
        /\ monitors[id].nextRefreshTime # Null
        /\ now - monitors[id].nextRefreshTime > 30000

\* C7: in a watchdog sweep a tab with an overdue Active watch is reloaded,
\* with the nextRefreshTime of its Active watches moved to the future, when
\* the tab exists, and loses all its watches when it is gone; a tab without
\* such a watch is not reloaded and keeps its watches as they are.
C7_Sweep ==
    [][Watchdog =>
          \A tab \in TabIds :
              IF Overdue(tab)
              THEN IF tab \in tabs
                   THEN /\ tab \in reloaded'
                        /\ ActiveForTab(monitors', tab) = ActiveForTab(monitors, tab)
                        /\ \A id \in ActiveForTab(monitors', tab) :
                              monitors'[id].nextRefreshTime > now
                   ELSE MonitorsForTab(monitors', tab) = {}
              ELSE /\ tab \notin reloaded'
                   /\ \A id \in MonitorsForTab(monitors, tab) :
                         id \in DOMAIN monitors' /\ monitors'[id] = monitors[id]]_vars

\* C7 witness: the sweep just reloaded a tab and stamped its Active watch
\* with now + min(15, interval) + 5 s.
C7_ForcedRefresh ==
    \E tab \in reloaded :
        \E id \in ActiveForTab(monitors, tab) :
            /\ monitors[id].interval < 15
            /\ monitors[id].nextRefreshTime =
                   now + monitors[id].interval * 1000 + 5000

\* some watch in the store is Active
AnyActive == \E id \in DOMAIN monitors : ~monitors[id].found

InResetWindow(j) ==
    tasks[j].pc \in {"reset_wait", "reset_read", "reset_open"}

\* C9: while a session reset is between closing its windows and rebinding
\* its watches, a watchdog sweep neither deletes or restamps the watches the
\* reset is moving nor reloads their tabs.
C9_ResetAtomic ==
    [][\A j \in Slots :
          (InResetWindow(j) /\ Watchdog)
              => /\ \A id \in tasks[j].todo :
                       id \in DOMAIN monitors
                           => /\ id \in DOMAIN monitors'
                              /\ monitors'[id] = monitors[id]
                 /\ reloaded' \cap tasks[j].groups = {}]_vars

\* a recovery of the tab is under way in slot j
Recovering(j, tab) ==
    /\ tasks[j].target = tab
    /\ tasks[j].pc \notin {"idle", "err_active", "nav_active"}

\* an error signal of either path for the tab starts a recovery that acts
StartsRecovery(tab) ==
    \E i \in Slots :
        /\ CanBegin(i)
        /\ \/ HandleWith(BeginErrorPageDetected(St, i, tab), i,
                         {"retrying", "inprivate-full-reset"})
           \/ HandleWith(BeginNavError(St, i, tab), i,
                         {"retrying", "inprivate-full-reset"})

\* C10: no recovery is started for a tab within 10 s of the start of an
\* earlier recovery of that tab, whichever path reports the error.
C10_OneRecoveryPerWindow ==
    [][\A tab \in TabIds, j \in Slots :
          (Recovering(j, tab) /\ now - tasks[j].at < 10000)
              => ~StartsRecovery(tab)]_vars

\* the delay the README's Smart Backoff table gives the n-th reset in a row
BackoffDelay(n) == Min({5000 * 2^(n - 1), 120000})

\* C11: whenever a session reset waits before reopening its windows, the
\* wait it asked for is a backoff delay min(5000 * 2^(n-1), 120000) for some
\* n >= 1 (5000, 10000, 20000, 40000, 80000 or 120000 ms).
C11_WaitIsBackoffDelay ==
    \A j \in Slots :
        tasks[j].pc = "reset_wait"
            => \E n \in 1 .. 6 : tasks[j].ms = BackoffDelay(n)

\* C12: the step of a session reset that reopens a window and rebinds a
\* watch to the new tab counts the cycle: the watch's incognitoCycleCount is
\* one more than before the reset rebound it.
C12_RebindCountsCycle ==
    [][\A id \in DOMAIN monitors :
          (/\ \E j \in Slots : tasks[j].pc = "reset_open"
           /\ id \in DOMAIN monitors'
           /\ monitors'[id].tabId # monitors[id].tabId)
              => monitors'[id].incognitoCycleCount
                     = monitors[id].incognitoCycleCount + 1]_vars

\* C13: after a page reports that it loaded without error (scheduleRefresh),
\* every Active watch of its tab has incognitoCycleCount 0.
C13_LoadResetsCycleCount ==
    [][\A tab \in TabIds :
          SchedulesOn(tab)
              => \A id \in ActiveForTab(monitors', tab) :
                    monitors'[id].incognitoCycleCount = 0]_vars

C15_FlaggedRemovalKeepsWatches ==
    [][\A tab \in TabIds :
          (/\ tab \in removed \cap tabsBeingReset
           /\ removed' = removed \ {tab}
           /\ tabsBeingReset' = tabsBeingReset \ {tab})
              => \A id \in DOMAIN monitors :
                    monitors[id].tabId = tab
                        => /\ id \in DOMAIN monitors'
                           /\ monitors'[id] = monitors[id]]_vars

\* C15 witness: the removal event of a tab closed by a session reset has
\* been delivered and its flag dropped, and the InPrivate watch of that tab
\* is still in the store, bound to the closed tab.
C15_WatchSurvivesFlaggedRemoval ==
    \E id \in DOMAIN monitors :
        /\ monitors[id].isIncognito
        /\ monitors[id].tabId \notin tabs
        /\ monitors[id].tabId \notin removed
        /\ monitors[id].tabId \notin tabsBeingReset

\* C16 as stated: a tab flagged by a session reset keeps its flag while the
\* reset has not yet rebound its watches or failed to reopen its window,
\* that is from the close loop up to the tab's own windows.create.
C16_FlagHeldUntilRebound ==
    [][\A tab \in tabsBeingReset, j \in Slots :
          (/\ tab \in tasks[j].groups
           /\ \/ tasks[j].pc \in {"reset_close", "reset_wait", "reset_read"}
              \/ /\ tasks[j].pc = "reset_open"
                 /\ \E k \in 1 .. Len(tasks[j].queue) :
                       tasks[j].queue[k] = tab)
              => tab \in tabsBeingReset']_vars

\* C16: every tab a session reset closes is flagged when it is closed, all
\* tabs of the reset are flagged when the first one is closed, and a flag
\* is removed only by the delivery of the removal event of its tab, which
\* has been closed by then.
C16_FlaggedUntilRemovalEvent ==
    [][/\ \A j \in Slots :
             (/\ tasks[j].pc = "reset_close"
              /\ Head(tasks[j].queue) \in tabs \ tabs')
                 => /\ Head(tasks[j].queue) \in tabsBeingReset
                    /\ tasks[j].queue = InOrder(tasks[j].groups)
                           => tasks[j].groups \subseteq tabsBeingReset
       /\ \A tab \in tabsBeingReset \ tabsBeingReset' :
             /\ tab \notin tabs
             /\ tab \in removed \ removed']_vars

\* C16 witness: a session reset is waiting between close and reopen, and
\* the flag of a tab it closed is already gone because the tab's removal
\* event has been delivered.
C16_FlagGoneBeforeRebind ==
    \E j \in Slots :
        /\ tasks[j].pc = "reset_wait"
        /\ \E tab \in tasks[j].groups :
              /\ tab \notin tabs
              /\ tab \notin removed
              /\ tab \notin tabsBeingReset

\* C17: a session reset that starts with no removal event pending, closes
\* every InPrivate window it found and reopens each of them (one new tab
\* per closed tab) leaves every InPrivate
\* watch that is not found bound to a new, open tab with one tracked timer
\* armed, and watches share a tab after the reset exactly when they shared
\* one before it.
C17_ResetRebindsAll ==
    [][\A tab \in TabIds :
          LET eph(mons) == {id \in DOMAIN mons :
                               mons[id].isIncognito /\ ~mons[id].found}
              groups == {monitors[id].tabId : id \in eph(monitors)} \cap tabs
          IN \/ /\ \A id \in eph(monitors') :
                      /\ monitors'[id].tabId \in tabs'
                      /\ monitors'[id].tabId >= nextTab
                      /\ ArmedOnce(timers', refreshTimers', monitors'[id].tabId)
                /\ \A a, b \in eph(monitors') :
                      (monitors'[a].tabId = monitors'[b].tabId)
                          <=> (monitors[a].tabId = monitors[b].tabId)
             \/ ~(/\ tab \in tabs
                  /\ removed = {}
                  /\ ActiveForTab(monitors, tab) # {}
                  /\ monitors[Min(ActiveForTab(monitors, tab))].isIncognito
                  /\ groups # {}
                  /\ groups \cap tabs' = {}
                  /\ nextTab' = nextTab + Cardinality(groups)
                  /\ \E i \in Slots :
                        /\ CanBegin(i)
                        /\ HandleWith(BeginErrorPageDetected(St, i, tab), i,
                                      {"inprivate-full-reset"}))]_vars

\* C18: once a session reset has returned, an InPrivate watch it left bound
\* to a tab it closed (the reopen failed) stays in the store through every
\* automatic step: the delivery of the tab's removal event, timer fires and
\* watchdog sweeps.  (No stop or dismissal happens in SpecReset.)
C18_FailedResetKeepsWatches ==
    [][\A id \in DOMAIN monitors :
          (/\ Idle
           /\ monitors[id].isIncognito
           /\ ~monitors[id].found
           /\ monitors[id].tabId \notin tabs
           /\ monitors[id].tabId \notin removed \ tabsBeingReset)
              => id \in DOMAIN monitors']_vars

C21_BoundedFifo ==
    [][/\ Len(history') <= HistoryCap
       /\ \/ history' = <<>>
          \/ \E index \in 0 .. (Len(history) - 1) :
                history' = RemoveAt(history, index)
          \/ \E n \in 0 .. MaxMonitors :
                /\ Len(history') = Min({Len(history) + n, HistoryCap})
                /\ \A k \in (n + 1) .. Len(history') :
                      history'[k] = history[k - n]
                /\ \A k \in 1 .. n :
                      \A j \in 1 .. Len(history) :
                          history'[k].id # history[j].id]_vars

\* C21 witness: a dismissal was added to a full history: it is at the head,
\* the history is still at the cap, and the oldest entry is gone.
C21_OldestEvicted ==
    /\ Len(history) = HistoryCap
    /\ history[1].id <= MaxMonitors
    /\ history[HistoryCap].id = MaxMonitors + 2

\* C22: no dismissal is lost: once the handlers have run to their ends,
\* every watch that was started is still in the store or has an entry in
\* the history (under SpecDismiss only dismissals of found watches delete,
\* nothing is evicted, and the user removes nothing).
C22_NoDismissalLost ==
    Idle => \A id \in 1 .. (nextId - 1) :
               \/ id \in DOMAIN monitors
               \/ \E k \in 1 .. Len(history) : history[k].id = id

\* C23: cold-start reconciliation: when onStartup and the handlers that ran
\* beside it have returned, every open tab with an Active watch has exactly
\* one refresh timer and no Active watch is bound to a tab that is gone; and
\* no step deletes a watch whose tab is open (a watch started during the
\* reconciliation is not overwritten by it).
C23_ColdStartReconciled ==
    /\ [](Idle =>
            \A id \in DOMAIN monitors :
                ~monitors[id].found =>
                    /\ monitors[id].tabId \in tabs
                    /\ Cardinality({tm \in timers :
                                       tm.tab = monitors[id].tabId}) = 1)
    /\ [][\A id \in DOMAIN monitors :
              monitors[id].tabId \in tabs => id \in DOMAIN monitors']_vars

\* C24: the terms [A (null), B (OR), C (null)] match a page that contains
\* C and neither A nor B.
C24_LastGroupAlone ==
    (/\ content.checked
     /\ content.sent \subseteq {"found", "scheduleRefresh"}
     /\ content.searchTerms =
            <<[term |-> <<"A">>, operator |-> "null"],
              [term |-> <<"b">>, operator |-> "OR"],
              [term |-> <<"c">>, operator |-> "null"]>>
     /\ content.pageText = <<"c">>)
        => content.isMatch

\* C25: the evaluation is true exactly when some group, one starting at the
\* first entry or at an entry joined by OR and ending before the next such
\* entry, has all its terms in the page, whatever their case; no terms
\* never match, and one term matches exactly when it is in the page.
C25_AndBindsTighter ==
    (/\ content.checked
     /\ content.pageText # <<>>
     /\ content.sent \subseteq {"found", "scheduleRefresh"}) =>
        LET st == content.searchTerms
            n == Len(st)
            page == ToLowerCase(content.pageText)
            has(k) == Includes(page, ToLowerCase(st[k].term))
        IN /\ n > 0 =>
                (content.isMatch <=>
                    \E g \in 1 .. n :
                        /\ g = 1 \/ st[g].operator = "OR"
                        /\ \A k \in g .. n :
                              (\A j \in (g + 1) .. k : st[j].operator # "OR")
                                  => has(k))
           /\ n = 0 => ~EvaluateSearchTerms(st, page)
           /\ n = 1 => (content.isMatch <=> has(1))

\* C25 witness: 'A OR b AND c' matched a page with "Bc" and no "a": the
\* second group matched in another case than the page's.
C25_SecondGroupMatched ==
    /\ content.checked
    /\ content.isMatch
    /\ content.searchTerms =
           <<[term |-> <<"A">>, operator |-> "null"],
             [term |-> <<"b">>, operator |-> "OR"],
             [term |-> <<"c">>, operator |-> "AND"]>>
    /\ content.pageText = <<"B", "c">>

\* C26: operations on a target are serialized: when scheduleRefreshForTab
\* writes the store back (lines 323-329), the store is still the one it read
\* at line 323: no other operation has completed a write in between.
C26_WritesBackCurrentStore ==
    [][\A i \in Slots :
          (tasks[i].pc = "sched_all" /\ tasks'[i].pc # "sched_all")
              => tasks[i].ssnap = monitors]_vars

\* C27: Found is terminal: a Found watch that stays in the store stays Found
\* and keeps its foundAt.
C27_FoundIsTerminal ==
    [][\A id \in DOMAIN monitors \cap DOMAIN monitors' :
          monitors[id].found =>
              /\ monitors'[id].found
              /\ monitors'[id].foundAt = monitors[id].foundAt]_vars

\* C28: every watch that enters the store is Active (found = false, foundAt
\* = null) with a reset cycle count of 0.
C28_CreatedActiveAtZero ==
    [][\A id \in DOMAIN monitors' \ DOMAIN monitors :
          /\ ~monitors'[id].found
          /\ monitors'[id].foundAt = Null
          /\ monitors'[id].incognitoCycleCount = 0]_vars

\* C29: a watchdog sweep that reloads a tab stamps every Active watch of
\* the tab with now + the shortest interval of the tab's Active watches +
\* 5 s.
C29_ForcedStampFromShortest ==
    [][(reloaded' # {} /\ Watchdog) =>
          \A tab \in reloaded' :
              \A id \in ActiveForTab(monitors', tab) :
                  monitors'[id].nextRefreshTime =
                      now + 5000
                          + 1000 * ShortestInterval(monitors',
                                       ActiveForTab(monitors', tab))]_vars

\* C30: a urlRedirected report from a tab with an Active watch navigates the
\* tab back and re-runs the schedule for it (a timer is armed for the
\* shortest interval of its Active watches); no tab is closed, no reset is
\* started and no watch changes its tab.
C30_RedirectNavigatesThenSchedules ==
    [][\A tab \in tabs :
          (/\ navigated' = {tab}
           /\ ActiveForTab(monitors, tab) # {}
           /\ \E i \in Slots :
                 CanBegin(i) /\ Handle(BeginUrlRedirected(St, i, tab), i))
              => /\ tabs' = tabs
                 /\ tabsBeingReset' = tabsBeingReset
                 /\ DOMAIN monitors' = DOMAIN monitors
                 /\ \A id \in DOMAIN monitors :
                       monitors'[id].tabId = monitors[id].tabId
                 /\ refreshTimers'[tab] = "armed"
                 /\ \E tm \in timers' :
                       /\ tm.tab = tab
                       /\ tm.due = now + 1000 * ShortestInterval(monitors,
                                              ActiveForTab(monitors, tab))]_vars

\* C31: in one content check a page whose origin and path (without the
\* query string and one trailing slash) differ from the watch's URL is
\* reported as redirected and as nothing else; an error page is reported
\* only when the page is not redirected, and a match only when the page is
\* neither redirected nor an error page.
C31_RedirectBeforeError ==
    content.checked =>
        LET strip(path) == IF path # <<>> /\ path[Len(path)] = "/"
                               THEN SubSeq(path, 1, Len(path) - 1)
                               ELSE path
            differs == /\ content.url.origin # ""
                       /\ \/ content.location.origin # content.url.origin
                          \/ strip(content.location.pathname)
                                 # strip(content.url.pathname)
            hasError == \E k \in 1 .. Len(content.pageText) :
                            content.pageText[k] \in {"e", "E"}
        IN /\ differs => content.sent = {"urlRedirected"}
           /\ "errorPageDetected" \in content.sent => ~differs
           /\ "found" \in content.sent => ~differs /\ ~hasError

\* C31, for a page that has text: the same three statements.
C31_RedirectBeforeErrorOnText ==
    content.pageText # <<>> => C31_RedirectBeforeError

\* C31 witness: the page is at another path than the watch's URL and its
\* text holds both an error pattern and the watch's term: the check
\* reported the redirection and nothing else.
C31_RedirectedErrorPage ==
    /\ content.checked
    /\ content.url = WatchedUrl
    /\ content.location.pathname = <<"/", "q">>
    /\ content.pageText = <<"e", "c">>
    /\ content.searchTerms = <<[term |-> <<"c">>, operator |-> "null"]>>
    /\ content.sent = {"urlRedirected"}

\* C32: a timer that fires decides on the store as it is then: with no
\* Active watch on its tab it reloads nothing and deletes no watch, and
\* with one on an open tab it reloads the tab.
C32_FireRereadsActive ==
    [][\A i \in Slots, tm \in timers :
          (/\ tm.due <= now
           /\ CanBegin(i)
           /\ timers' = timers \ {tm}
           /\ Handle(BeginTimer(St, i, tm), i))
              => IF ActiveForTab(monitors, tm.tab) = {}
                 THEN reloaded' = {} /\ monitors' = monitors
                 ELSE tm.tab \in tabs => reloaded' = {tm.tab}]_vars

\* C32 witness: the timer of a tab came due and has run while the found
\* handler of the tab's last Active watch was suspended after its save:
\* nothing was reloaded and the watch is in the store.
C32_FiredAfterFound ==
    \E tab \in TabIds, i \in Slots :
        /\ refreshTimers[tab] = "fired"
        /\ tasks[i].op = "found"
        /\ tasks[i].pc = "found_focus"
        /\ tasks[i].at < now
        /\ monitors[tasks[i].mid].tabId = tab
        /\ ActiveForTab(monitors, tab) = {}
        /\ \A tm \in timers : tm.tab # tab
        /\ reloaded = {}

\* C33: a watch in the store has a foundAt exactly when it is Found.
C33_FoundAtIffFound ==
    \A id \in DOMAIN monitors :
        (monitors[id].foundAt # Null) <=> monitors[id].found

\* C33 witness: a Found watch with its foundAt beside an Active watch
\* without one, after a schedule that ran beside the found handler wrote
\* the store.
C33_FoundBesideActive ==
    /\ Idle
    /\ \E id, k \in DOMAIN monitors :
          /\ monitors[id].found
          /\ monitors[id].foundAt = now
          /\ ~monitors[k].found
          /\ monitors[k].foundAt = Null
          /\ monitors[k].tabId = monitors[id].tabId
          /\ refreshTimers[monitors[k].tabId] = "armed"

\* C34: a Found watch in the store has no nextRefreshTime.
C34_FoundHasNoDeadline ==
    \A id \in DOMAIN monitors :
        monitors[id].found => monitors[id].nextRefreshTime = Null

\* C35: a watch that has left the store (here: by stopMonitoring, the only
\* handler at work that deletes) is not in the store again later.
C35_StoppedStaysOut ==
    [][\A id \in Issued :
          id \notin DOMAIN monitors => id \notin DOMAIN monitors']_vars

\* nothing is watched: the store is empty, no timer is pending or in the
\* Map and the watchdog interval is stopped
Quiet ==
    /\ monitors = NoMonitors
    /\ timers = {}
    /\ \A tab \in TabIds : refreshTimers[tab] # "armed"
    /\ ~stuckWatchdogTimer

\* C36: when stopAllMonitoring returns nothing is watched, and nothing is
\* watched or reloaded from then on until a watch is created.
C36_StopAllIsFinal ==
    /\ [][\A i \in Slots :
             (tasks[i].op = "stopAllMonitoring" /\ Free(i)') => Quiet']_vars
    /\ [][(Quiet /\ nextId' = nextId) => (Quiet' /\ reloaded' = {})]_vars

\* C37: a step that moves a watch to an InPrivate window leaves the other
\* watches of its tab as they are, on a tab that is still open, and the
\* tab's timer armed if it was.
C37_MovesOnlyThatWatch ==
    [][\A mid \in DOMAIN monitors :
          (/\ ~monitors[mid].isIncognito
           /\ mid \in DOMAIN monitors'
           /\ monitors'[mid].isIncognito)
              => \A k \in DOMAIN monitors \ {mid} :
                    monitors[k].tabId = monitors[mid].tabId
                        => /\ k \in DOMAIN monitors'
                           /\ monitors'[k] = monitors[k]
                           /\ ~monitors[k].found
                                 => /\ monitors[k].tabId \in tabs'
                                    /\ refreshTimers[monitors[k].tabId]
                                           = "armed"
                                         => refreshTimers'[monitors[k].tabId]
                                                = "armed"]_vars

\* C38: the Active watches of one tab agree on isIncognito, and an Active
\* watch of an open tab is marked isIncognito exactly when the tab is in an
\* InPrivate window.
C38_SessionKindOfTarget ==
    \A id \in DOMAIN monitors :
        ~monitors[id].found =>
            /\ \A k \in DOMAIN monitors :
                  (~monitors[k].found /\ monitors[k].tabId = monitors[id].tabId)
                      => monitors[k].isIncognito = monitors[id].isIncognito
            /\ monitors[id].tabId \in tabs
                  => (monitors[id].isIncognito
                          <=> IsIncognitoTab(monitors[id].tabId))

\* C39: when no session reset is at work and no removal event of a flagged
\* tab is still to be delivered, no tab is flagged.
C39_NoStaleFlag ==
    (/\ \A i \in Slots : tasks[i].op # "errorPageDetected"
     /\ removed \cap tabsBeingReset = {})
        => tabsBeingReset = {}

\* C40: when onStartup has returned, the nextRefreshTime stored for an
\* Active watch on an open tab is the moment the tab's timer is due.
C40_StoredDeadlineIsTimer ==
    Idle =>
        \A id \in DOMAIN monitors :
            (~monitors[id].found /\ monitors[id].tabId \in tabs)
                => \A tm \in timers :
                      tm.tab = monitors[id].tabId
                          => monitors[id].nextRefreshTime = tm.due

====
